---- MODULE Spec2Model ----
(***************************************************************************)
(* Model of hhd's virtual controller layer,                                *)
(* src/hhd/controller/virtual/uinput/__init__.py (class UInputDevice).     *)
(*                                                                         *)
(* Numbers.  Python floats are modelled as exact rationals <<num, den>>    *)
(* with den > 0.  The 32-bit timestamps are kept at their width: a         *)
(* nanosecond count is a sequence of four 16-bit limbs (most significant   *)
(* first) and a written timestamp is the pair <<hi, lo>> of 16-bit limbs   *)
(* of the 32-bit value.                                                    *)
(***************************************************************************)
EXTENDS Integers, Sequences, FiniteSets, TLC

\* ------------------------------------------------------------------ bounds
\* Longest batch handed to one consume call.
MaxBatch == 2
\* Most device events buffered for one produce call.
MaxQueue == 2
\* Most touchpad_touch events written to one handle in the lifecycle
\* specification.
MaxTouches == 3
\* Most running subprocesses, and most running loader threads, that the
\* updater plugin holds no reference to.
MaxOrphans == 1
MaxStale == 1
MaxNumber == 2

\* --------------------------------------------------------- python values
\* self.dev = None
DevNone == "None"
\* self.fd = None (close); every real descriptor is >= 0
FdNone == -1
\* the attribute self.fd does not exist before the first open
FdUnset == -2
\* self.touch_id / self.touchpad_aspect do not exist before the first open
TouchUnset == 0
AspectUnset == <<0, 1>>
\* None as the value of a plugin field
PyNone == "None"
\* the attribute self.prev does not exist before the first open
PrevUnset == "unset"
\* the descriptor of the created device (self.dev.fd)
DevFd == 5
\* 16-bit limb base of the wide numbers
Limb == 65536

VARIABLES
    \* ---- fields of UInputDevice
    dev,                    \* DevNone, "UInputMonkey" or "UInput"
    fd,                     \* FdUnset, FdNone or the descriptor
    touchpad_aspect,        \* rational <<num, den>>
    touch_id,
    rumble,                 \* <<>> for None, else <<rumble event>>
    output_imu_timestamps,  \* "False", "True" or a sensor-timestamp code
    output_timestamps,
    ignore_cmds,
    btn_map,                \* the injected button map: code -> key id
    \* ---- the virtual device: events the OS has buffered for dev.read()
    inq,
    \* ---- the most recent call: its name, argument, effects and result
    op,                     \* "init", "open", "close", "consume", "produce", "os"
    events,                 \* the batch of the last consume
    written,                \* dev.write()/dev.syn() calls of the last consume
    drained,                \* device events read by the last produce
    out,                    \* events returned by the last produce
    acks,                   \* begin/end upload/erase calls of the last produce
    raised,                 \* the last call raised an exception
    ret,                    \* what the last open or close returned
    lifecalls,              \* constructor / dev.close() calls of the last call
    ready,                  \* the argument fds of the last produce
    \* ---- history: raw magnitudes of the most recent FF_RUMBLE upload
    lastUpload,
    \* ---- history: a rumble upload was processed since the last close
    uploadedSinceClose,
    \* ---- history: the touchpad_touch events written to the device now
    \* held: "none", "release" (releases only) or "down" (a touch-down)
    handleTouch,
    \* ---- RogAllyControllersPlugin: its fields, its worker threads, the
    \* position of its caller and the record of the most recent call
    ally,
    \* ---- BootcPlugin: its fields, the conf value it publishes, its
    \* subprocesses and loader threads and the record of the most recent call
    bootc,
    \* ---- validate_config: one setting of the merged settings, the conf
    \* value under its key and the record of the most recent call
    validation

vars == <<dev, fd, touchpad_aspect, touch_id, rumble, output_imu_timestamps,
          output_timestamps, ignore_cmds, btn_map, inq, op, events, written, drained,
          out, acks, raised, ret, lifecalls, ready, lastUpload,
          uploadedSinceClose, handleTouch, ally, bootc, validation>>

config == <<output_imu_timestamps, output_timestamps, ignore_cmds, btn_map>>

\* The plugins, which the virtual controller layer does not touch.
plugins == <<ally, bootc, validation>>

\* ------------------------------------------------------------- sequences
RECURSIVE SeqsUpTo(_, _)
SeqsUpTo(S, n) ==
    IF n = 0 THEN {<<>>}
    ELSE LET shorter == SeqsUpTo(S, n - 1)
         IN  shorter \cup {Append(s, x) : s \in {t \in shorter : Len(t) = n - 1}, x \in S}

Min(a, b) == IF a <= b THEN a ELSE b
Max(a, b) == IF a >= b THEN a ELSE b

\* ------------------------------------------------------------- rationals
RatOfInt(n) == <<n, 1>>
RatMul(a, b) == <<a[1] * b[1], a[2] * b[2]>>
RatAdd(a, b) == <<a[1] * b[2] + b[1] * a[2], a[2] * b[2]>>
\* flooring conversion: what int() would be if it rounded down
FloorInt(r) == r[1] \div r[2]
\* Python int(float): truncation toward zero
PyInt(r) == IF r[1] >= 0 THEN r[1] \div r[2] ELSE -((-r[1]) \div r[2])

\* ----------------------------------------------------------- wide numbers
\* Long division of a limb sequence (most significant first) by a small d.
RECURSIVE DivLimbsFrom(_, _, _, _)
DivLimbsFrom(limbs, d, rem, quot) ==
    IF limbs = <<>> THEN [q |-> quot, r |-> rem]
    ELSE LET cur == rem * Limb + Head(limbs)
         IN  DivLimbsFrom(Tail(limbs), d, cur % d, Append(quot, cur \div d))

DivLimbs(limbs, d) == DivLimbsFrom(limbs, d, 0, <<>>)

\* x % 2**32 of a limb sequence: its two least significant limbs
Mod32(limbs) == <<limbs[Len(limbs) - 1], limbs[Len(limbs)]>>

\* ---------------------------------------------------- construction (maps)
\* The injected axis map (constructor argument axis_map): code -> AX.
\* bounds = <<>> stands for bounds=None.
axis_map ==
    [rs_x       |-> [id |-> "ABS_RX", scale |-> 1, offset |-> 0, bounds |-> <<-32767, 32767>>],
     rs_y       |-> [id |-> "ABS_RY", scale |-> 3, offset |-> 1, bounds |-> <<>>],
     touchpad_x |-> [id |-> "ABS_X",  scale |-> 2, offset |-> 1, bounds |-> <<0, 10>>],
     touchpad_y |-> [id |-> "ABS_Y",  scale |-> 2, offset |-> 1, bounds |-> <<0, 10>>]]

\* The injected button maps (constructor argument btn_map): code -> key id.
\* A gamepad-with-touchpad map, and one that does not map touchpad_touch.
TouchButtonMap ==
    [a              |-> "BTN_A",
     touchpad_touch |-> "BTN_TOUCH"]
PlainButtonMap == [a |-> "BTN_A"]
ButtonMaps == {TouchButtonMap, PlainButtonMap}

ImuSettings == {"False", "True", "gyro_ts"}

\* RogAllyControllersPlugin.__init__: no thread, no exit event, a clear
\* updated event, not started.  self.prev is first assigned by open.
\* t is 0 for None, else the number of the Thread object; alive is the set
\* of threads running plugin_run, unstarted the set of Thread objects whose
\* start() failed, and threads counts the Thread objects created.
AllyNew ==
    [t |-> 0, should_exit |-> PyNone, updated |-> FALSE, started |-> FALSE,
     prev |-> PrevUnset,
     alive |-> {}, threads |-> 0, unstarted |-> {},
     pc |-> "idle",
     op |-> "init", arg |-> PyNone, raised |-> FALSE, spawned |-> 0, joined |-> 0]

\* BRANCHES, in the order of the environment default: the keys of
\* self.branches.
Branches == <<"stable", "testing", "unstable">>

\* An image reference: the part before the last ":" and the tag after it
\* (tag "" when the reference has no ":"; name "" for a missing reference).
Ref(name, tag) == [name |-> name, tag |-> tag]
NoRef == Ref("", "")

\* What get_bootc_status returns, by the keys _init reads.  dict is
\* "empty" for {} (a failed status command), "full" otherwise, and "None"
\* for self.status = None.
Status(dict, api, ref, order, staged, rollback, booted, incompat, cver, cref) ==
    [dict |-> dict, apiVersion |-> api, image |-> ref, bootOrder |-> order,
     staged |-> staged, rollback |-> rollback, booted |-> booted,
     incompatible |-> incompat, cachedVersion |-> cver, cachedImage |-> cref]
StatusNone == Status("None", "", NoRef, "", "", "", "", FALSE, "", NoRef)
StatusEmpty == Status("empty", "", NoRef, "", "", "", "", FALSE, "", NoRef)

\* BootcPlugin.__init__.  self.updated is first assigned by open.
\* proc is "None", "running" or "exited" (a Popen object whose process has
\* ended); orphans counts the running subprocesses self.proc no longer
\* refers to.  t is "None", "alive" or "ended"; stale counts the alive
\* loader threads self.t no longer refers to.  t_data is "None", "empty"
\* ({}) or "filled"; writers counts the alive loader threads whose tags
\* argument is the mapping self.t_data refers to.  mode is
\* conf["updates.bootc.stage.mode"].
BootcNew ==
    [state |-> "init", mode |-> PyNone,
     proc |-> PyNone, orphans |-> 0,
     t |-> PyNone, stale |-> 0, t_data |-> PyNone, writers |-> 0,
     checked_update |-> FALSE, branch_name |-> PyNone, branch_ref |-> <<>>,
     status |-> StatusNone, updated |-> "unset",
     op |-> "init", pressed |-> {}, raised |-> FALSE, launched |-> "none",
     interrupted |-> FALSE, rebooted |-> FALSE]

\* What a call that is not consume/produce leaves of the last call's record.
NoCallRecord ==
    /\ events' = <<>>
    /\ written' = <<>>
    /\ drained' = <<>>
    /\ out' = <<>>
    /\ acks' = <<>>

\* ------------------------------------------------------------------- open
\* The constructor arguments of the two creation paths.  The primary path
\* (UInputMonkey) takes uniq; the default path (UInput) takes the same
\* arguments without it.
CtorArgs ==
    {"events", "name", "vendor", "product", "bustype", "phys", "input_props", "uniq"}
DefaultCtorArgs == CtorArgs \ {"uniq"}

\* One constructor call: the class called, its arguments, whether it
\* returned a device (ok) or raised.
Ctor(class, args, ok) == [call |-> class, args |-> args, ok |-> ok]

\* The constructor calls of one open: the try block, then the except block.
\* primaryOk / defaultOk: whether UInputMonkey(...) / UInput(...) succeeds.
AttemptsPrimaryOnly(primaryOk, defaultOk) ==
    <<Ctor("UInputMonkey", CtorArgs, primaryOk)>>
Attempts(primaryOk, defaultOk) ==
    IF primaryOk
    THEN <<Ctor("UInputMonkey", CtorArgs, TRUE)>>
    ELSE <<Ctor("UInputMonkey", CtorArgs, FALSE),
           Ctor("UInput", DefaultCtorArgs, defaultOk)>>

\* `if self.ignore_cmds: return []` / `return [self.fd]`
OpenResultAlwaysFd(ignore, f) == <<f>>
OpenResult(ignore, f) == IF ignore THEN <<>> ELSE <<f>>

\* `self.touch_id = 1`
TouchIdKept(old) == IF old = TouchUnset THEN 1 ELSE old
TouchIdAfterOpen(old) == 1

\* open().  The last constructor call decides: if it raised, open raises
\* before any field is assigned; else self.dev is the device it returned.
\* Opening over a held device overwrites it without closing it (no guard).
\* The new device has nothing buffered.
OpenAs(primaryOk, defaultOk) ==
    LET calls == Attempts(primaryOk, defaultOk)
        last  == calls[Len(calls)]
    IN  /\ op' = "open"
        /\ NoCallRecord
        /\ lifecalls' = calls
        /\ ready' = {}
        /\ UNCHANGED <<rumble, config, plugins, lastUpload, uploadedSinceClose>>
        /\ IF ~last.ok
           THEN /\ raised' = TRUE
                /\ ret' = <<>>
                /\ UNCHANGED <<dev, fd, touchpad_aspect, touch_id, inq, handleTouch>>
           ELSE /\ raised' = FALSE
                /\ inq' = <<>>
                /\ dev' = last.call
                /\ touchpad_aspect' = RatOfInt(1)
                /\ touch_id' = TouchIdAfterOpen(touch_id)
                /\ fd' = DevFd
                /\ ret' = OpenResult(ignore_cmds, DevFd)
                /\ handleTouch' = "none"

Open == \E primaryOk \in BOOLEAN, defaultOk \in BOOLEAN : OpenAs(primaryOk, defaultOk)

\* ------------------------------------------------------------------ close
\* `if self.dev: self.dev.close()`
ClosesDeviceAlways(d) == TRUE
ClosesDevice(d) == d # DevNone

\* close(exit); exit is not read.  releaseOk: whether self.dev.close()
\* returns (it is not called when no device is held).  If it raises, the
\* exception leaves close before any field is cleared.
CloseAs(releaseOk) ==
    /\ op' = "close"
    /\ NoCallRecord
    /\ lifecalls' = IF ClosesDevice(dev) THEN <<[call |-> "close", dev |-> dev]>> ELSE <<>>
    /\ ready' = {}
    /\ UNCHANGED <<touchpad_aspect, touch_id, rumble, config, plugins, lastUpload>>
    /\ IF ClosesDevice(dev) /\ ~releaseOk
       THEN /\ raised' = TRUE
            /\ ret' = <<>>
            /\ UNCHANGED <<dev, fd, inq, uploadedSinceClose, handleTouch>>
       ELSE /\ raised' = FALSE
            /\ dev' = DevNone
            /\ fd' = FdNone
            /\ inq' = <<>>
            /\ ret' = <<TRUE>>
            /\ uploadedSinceClose' = FALSE
            /\ handleTouch' = "none"

\* close when releasing the device succeeds.
Close == CloseAs(TRUE)

\* close when releasing the device may raise (OSError from the OS).
CloseMayRaise == \E releaseOk \in BOOLEAN : CloseAs(releaseOk)

\* ---------------------------------------------------------------- consume
\* The three sensor-timestamp codes of the unmapped-axis branch.
TsCodes == {"accel_ts", "gyro_ts", "imu_ts"}

\* One device call: dev.write(etype, code, value), or dev.syn() as
\* W("EV_SYN", "SYN_REPORT", 0, 0).  src is the 1-based position in the
\* batch of the event that caused the call (0: written after the loop).
W(etype, code, value, src) ==
    [etype |-> etype, code |-> code, value |-> value, src |-> src]

Key(ev) == <<ev.type, ev.code>>

\* `for ev in reversed(events)`: the positions in the order they are visited.
ScanOrder(evs) == [k \in 1..Len(evs) |-> Len(evs) + 1 - k]

\* `if key in wrote: continue`
NeverDuplicate(key, wrote) == FALSE
IsDuplicate(key, wrote) == key \in wrote

\* scale * value + offset
Transformed(ax, raw) == RatAdd(RatMul(RatOfInt(ax.scale), raw), RatOfInt(ax.offset))

\* The integer an axis event is converted to, before the bounds are applied.
AxisValueFloor(code, ax, raw, aspect) ==
    IF code = "touchpad_x"
    THEN FloorInt(RatMul(aspect, Transformed(ax, raw)))
    ELSE FloorInt(Transformed(ax, raw))
AxisValueBothTouch(code, ax, raw, aspect) ==
    IF code \in {"touchpad_x", "touchpad_y"}
    THEN PyInt(RatMul(aspect, Transformed(ax, raw)))
    ELSE PyInt(Transformed(ax, raw))
AxisValue(code, ax, raw, aspect) ==
    IF code = "touchpad_x"
    THEN PyInt(RatMul(aspect, Transformed(ax, raw)))
    ELSE PyInt(Transformed(ax, raw))

\* `if ax.bounds: val = min(max(val, ax.bounds[0]), ax.bounds[1])`
ClampBounds(val, bounds) ==
    IF bounds # <<>> THEN Min(Max(val, bounds[1]), bounds[2]) ELSE val

\* The synthetic multi-touch position writes that follow a touch axis write.
MtMirrorNone(code, val, src) == <<>>
MtMirror(code, val, src) ==
    IF code = "touchpad_x" THEN <<W("EV_ABS", "ABS_MT_POSITION_X", val, src)>>
    ELSE IF code = "touchpad_y" THEN <<W("EV_ABS", "ABS_MT_POSITION_Y", val, src)>>
    ELSE <<>>

\* The condition of the sensor-timestamp branch.
TsEnabled(code, imu) == (imu = "True" /\ code \in TsCodes) \/ code = imu

\* `(ev["value"] // 1000) % (2**32)` on a nanosecond count
SensorTsNoWrap(ns) == LET q == DivLimbs(ns, 1000).q IN <<q[Len(q) - 2] * Limb + q[Len(q) - 1], q[Len(q)]>>
SensorTs(ns) == Mod32(DivLimbs(ns, 1000).q)

\* `self.touch_id += 1; if self.touch_id > 500: self.touch_id = 1`
MaxTouchId == 500
NextTouchIdZero(id) == IF id + 1 > MaxTouchId THEN 0 ELSE id + 1
NextTouchIdEarly(id) == IF id + 1 >= MaxTouchId THEN 1 ELSE id + 1
NextTouchId(id) == IF id + 1 > MaxTouchId THEN 1 ELSE id + 1

\* The loop state: wrote (the keys of dict `wrote`), ts, the two touch
\* fields and the device calls made so far.
ConsumeAxis(ev, i, st) ==
    IF ev.code \in DOMAIN axis_map
    THEN LET ax  == axis_map[ev.code]
             val == ClampBounds(AxisValue(ev.code, ax, ev.value, st.aspect), ax.bounds)
         IN  [st EXCEPT !.writes = @ \o <<W("EV_ABS", ax.id, val, i)>> \o MtMirror(ev.code, val, i),
                        !.wrote = @ \cup {Key(ev)}]
    ELSE IF TsEnabled(ev.code, output_imu_timestamps)
    THEN LET ts == SensorTs(ev.value)
         IN  [st EXCEPT !.ts = ts,
                        !.writes = @ \o <<W("EV_MSC", "MSC_TIMESTAMP", ts, i)>>,
                        !.wrote = @ \cup {Key(ev)}]
    ELSE st

\* `self.touch_id if ev["value"] else -1`
TrackingValueAlwaysId(pressed, id) == id
TrackingValue(pressed, id) == IF pressed THEN id ELSE -1

ConsumeButton(ev, i, st) ==
    IF ev.code \in DOMAIN btn_map
    THEN LET v     == IF ev.value THEN 1 ELSE 0
             touch == ev.code = "touchpad_touch"
             track == IF touch
                      THEN <<W("EV_ABS", "ABS_MT_TRACKING_ID",
                               TrackingValue(ev.value, st.touch_id), i),
                             W("EV_KEY", "BTN_TOOL_FINGER", v, i)>>
                      ELSE <<>>
         IN  [st EXCEPT !.writes = @ \o track \o <<W("EV_KEY", btn_map[ev.code], v, i)>>,
                        !.touch_id = IF touch THEN NextTouchId(@) ELSE @,
                        !.wrote = @ \cup {Key(ev)}]
    ELSE st

ConsumeConfiguration(ev, i, st) ==
    IF ev.code = "touchpad_aspect_ratio"
    THEN [st EXCEPT !.aspect = ev.value]
    ELSE st

ConsumeEvent(ev, i, st) ==
    IF IsDuplicate(Key(ev), st.wrote) THEN st
    ELSE CASE ev.type = "axis" -> ConsumeAxis(ev, i, st)
           [] ev.type = "button" -> ConsumeButton(ev, i, st)
           [] ev.type = "configuration" -> ConsumeConfiguration(ev, i, st)
           [] OTHER -> st

RECURSIVE ConsumeLoop(_, _, _)
ConsumeLoop(evs, order, st) ==
    IF order = <<>> THEN st
    ELSE ConsumeLoop(evs, Tail(order), ConsumeEvent(evs[Head(order)], Head(order), st))

\* `if wrote and (not self.output_imu_timestamps or ts): self.dev.syn()`
ShouldSyn(wrote, imu, ts) == wrote # {} /\ (imu = "False" \/ ts # <<0, 0>>)

\* `if wrote and self.output_timestamps` ... to the end of consume;
\* now is time.perf_counter_ns() as limbs.
ShouldStampNever(wrote, stamps) == FALSE
ShouldStampAlways(wrote, stamps) == stamps
ShouldStamp(wrote, stamps) == wrote # {} /\ stamps

AfterLoop(st, now) ==
    LET stamp == ShouldStamp(st.wrote, output_timestamps)
        ts    == IF stamp THEN SensorTs(now) ELSE st.ts
        w1    == IF stamp
                 THEN st.writes \o <<W("EV_MSC", "MSC_TIMESTAMP", ts, 0)>>
                 ELSE st.writes
    IN  IF ShouldSyn(st.wrote, output_imu_timestamps, ts)
        THEN w1 \o <<W("EV_SYN", "SYN_REPORT", 0, 0)>>
        ELSE w1

\* The touch history of the handle after the device calls ws.
TouchHistory(h, ws) ==
    IF h = "down" \/ \E k \in 1..Len(ws) :
                        ws[k].code = "ABS_MT_TRACKING_ID" /\ ws[k].value # -1
    THEN "down"
    ELSE IF \E k \in 1..Len(ws) : ws[k].code = "ABS_MT_TRACKING_ID"
    THEN "release"
    ELSE h

\* `if not self.dev: return`
NotOpenNever(d) == FALSE
NotOpen(d) == d = DevNone

\* consume(evs), with the clock reading `now` used if the clock is read.
Consume(evs, now) ==
    /\ op' = "consume"
    /\ events' = evs
    /\ raised' = FALSE
    /\ drained' = <<>>
    /\ out' = <<>>
    /\ acks' = <<>>
    /\ ret' = <<>>
    /\ lifecalls' = <<>>
    /\ ready' = {}
    /\ UNCHANGED <<dev, fd, rumble, config, plugins, inq, lastUpload, uploadedSinceClose>>
    /\ IF NotOpen(dev)
       THEN /\ written' = <<>>
            /\ UNCHANGED <<touchpad_aspect, touch_id, handleTouch>>
       ELSE LET st == ConsumeLoop(evs, ScanOrder(evs),
                                  [wrote |-> {}, ts |-> <<0, 0>>,
                                   aspect |-> touchpad_aspect,
                                   touch_id |-> touch_id, writes |-> <<>>])
            IN  /\ written' = AfterLoop(st, now)
                /\ touchpad_aspect' = st.aspect
                /\ touch_id' = st.touch_id
                /\ handleTouch' = TouchHistory(handleTouch, st.writes)

\* ---------------------------------------------------------------- produce
RECURSIVE Gcd(_, _)
Gcd(a, b) == IF b = 0 THEN a ELSE Gcd(b, a % b)

\* The float n / d (d > 0) as a fraction in lowest terms.
Ratio(n, d) == LET g == Gcd(n, d) IN <<n \div g, d \div g>>

\* A device event as dev.read() yields it.  For UI_FF_UPLOAD, effect is the
\* effect dev.begin_upload(ev.value) returns; NoEffect elsewhere.
NoEffect == [type |-> "none", weak_magnitude |-> 0, strong_magnitude |-> 0]
DevEv(type, code, value, effect) ==
    [type |-> type, code |-> code, value |-> value, effect |-> effect]
RumbleEffect(weak, strong) ==
    [type |-> "FF_RUMBLE", weak_magnitude |-> weak, strong_magnitude |-> strong]

\* An abstract rumble event of the output; src is the 1-based position among
\* the drained device events of the one that caused it (0 while stored).
RumbleEv(weak, strong, src) ==
    [type |-> "rumble", code |-> "main", weak_magnitude |-> weak,
     strong_magnitude |-> strong, src |-> src]

\* `data.weak_magnitude / 0xFFFF`
Normalize(raw) == Ratio(raw, 65535)

\* self.rumble after an upload of `effect`
KeepFirstUpload(effect, old) ==
    IF effect.type = "FF_RUMBLE" /\ old = <<>>
    THEN <<RumbleEv(Normalize(effect.weak_magnitude),
                    Normalize(effect.strong_magnitude), 0)>>
    ELSE old
UploadedRumbleOrCleared(effect, old) ==
    IF effect.type = "FF_RUMBLE"
    THEN <<RumbleEv(Normalize(effect.weak_magnitude),
                    Normalize(effect.strong_magnitude), 0)>>
    ELSE <<>>
UploadedRumble(effect, old) ==
    IF effect.type = "FF_RUMBLE"
    THEN <<RumbleEv(Normalize(effect.weak_magnitude),
                    Normalize(effect.strong_magnitude), 0)>>
    ELSE old

\* What an EV_FF event with a nonzero value adds to the output.
ActivateOrStop(pending, src) ==
    IF pending # <<>> THEN <<[pending[1] EXCEPT !.src = src]>>
    ELSE <<RumbleEv(RatOfInt(0), RatOfInt(0), src)>>
ActivateOut(pending, src) ==
    IF pending # <<>> THEN <<[pending[1] EXCEPT !.src = src]>> ELSE <<>>

\* What an EV_FF event with value zero adds to the output.
DeactivateIfUploaded(pending, src) ==
    IF pending # <<>> THEN <<RumbleEv(RatOfInt(0), RatOfInt(0), src)>> ELSE <<>>
DeactivateOut(pending, src) == <<RumbleEv(RatOfInt(0), RatOfInt(0), src)>>

\* One call of the force-feedback request protocol on the device, caused by
\* drained position src.  retval is the result field of the request object:
\* 0 as begin_upload/begin_erase hand it out, and as end_* passes it back.
FFCall(call, retval, src) == [call |-> call, retval |-> retval, src |-> src]

\* begin_upload ... end_upload: the request goes back as it was received.
UploadCallsUnanswered(src) == <<FFCall("begin_upload", 0, src)>>
UploadCalls(src) == <<FFCall("begin_upload", 0, src), FFCall("end_upload", 0, src)>>

\* begin_erase; erase.retval = 0; end_erase
EraseCallsFailing(src) == <<FFCall("begin_erase", 0, src), FFCall("end_erase", -1, src)>>
EraseCalls(src) == <<FFCall("begin_erase", 0, src), FFCall("end_erase", 0, src)>>

\* self.rumble after an erase: the erase branch does not touch it.
ErasedRumbleCleared(old) == <<>>
ErasedRumble(old) == old

\* One iteration of `for ev in self.dev.read()`.  st holds self.rumble, the
\* output, the acknowledgements and the upload history.
ProduceEvent(ev, i, st) ==
    IF ev.type = "EV_MSC" /\ ev.code = "MSC_TIMESTAMP" THEN st
    ELSE IF ev.type = "EV_UINPUT"
    THEN IF ev.code = "UI_FF_UPLOAD"
         THEN [st EXCEPT !.rumble = UploadedRumble(ev.effect, @),
                         !.acks = @ \o UploadCalls(i),
                         !.lastUpload = IF ev.effect.type = "FF_RUMBLE"
                                        THEN <<ev.effect>> ELSE @]
         ELSE IF ev.code = "UI_FF_ERASE"
         THEN [st EXCEPT !.rumble = ErasedRumble(@),
                         !.acks = @ \o EraseCalls(i)]
         ELSE st
    ELSE IF ev.type = "EV_FF" /\ ev.value # 0
    THEN [st EXCEPT !.out = @ \o ActivateOut(st.rumble, i)]
    ELSE IF ev.type = "EV_FF" /\ ev.value = 0
    THEN [st EXCEPT !.out = @ \o DeactivateOut(st.rumble, i)]
    ELSE st

RECURSIVE ProduceLoop(_, _, _)
ProduceLoop(evs, i, st) ==
    IF i > Len(evs) THEN st
    ELSE ProduceLoop(evs, i + 1, ProduceEvent(evs[i], i, st))

\* `not self.fd`
FdFalsy(f) == f = FdNone \/ f = 0

\* produce(fds)
Produce(fds) ==
    /\ op' = "produce"
    /\ events' = <<>>
    /\ written' = <<>>
    /\ ret' = <<>>
    /\ lifecalls' = <<>>
    /\ ready' = fds
    /\ UNCHANGED <<dev, fd, touchpad_aspect, touch_id, config, plugins, handleTouch>>
    /\ IF ignore_cmds
       THEN /\ raised' = FALSE
            /\ drained' = <<>> /\ out' = <<>> /\ acks' = <<>>
            /\ UNCHANGED <<rumble, inq, lastUpload, uploadedSinceClose>>
       ELSE IF fd = FdUnset
       THEN /\ raised' = TRUE
            /\ drained' = <<>> /\ out' = <<>> /\ acks' = <<>>
            /\ UNCHANGED <<rumble, inq, lastUpload, uploadedSinceClose>>
       ELSE IF FdFalsy(fd) \/ fd \notin fds \/ dev = DevNone
       THEN /\ raised' = FALSE
            /\ drained' = <<>> /\ out' = <<>> /\ acks' = <<>>
            /\ UNCHANGED <<rumble, inq, lastUpload, uploadedSinceClose>>
       ELSE LET st == ProduceLoop(inq, 1,
                                  [rumble |-> rumble, out |-> <<>>, acks |-> <<>>,
                                   lastUpload |-> lastUpload])
            IN  /\ raised' = FALSE
                /\ drained' = inq
                /\ inq' = <<>>
                /\ out' = st.out
                /\ acks' = st.acks
                /\ rumble' = st.rumble
                /\ lastUpload' = st.lastUpload
                /\ uploadedSinceClose' =
                       (uploadedSinceClose \/
                        \E k \in 1..Len(inq) :
                            /\ inq[k].type = "EV_UINPUT"
                            /\ inq[k].code = "UI_FF_UPLOAD"
                            /\ inq[k].effect.type = "FF_RUMBLE")

\* Descriptor sets the poll loop may report ready.
FdsChoices == {{}, {DevFd}, {DevFd + 1}}
ProduceReady == \E fds \in FdsChoices : Produce(fds)

\* The OS queues one force-feedback request or echo on the open device.
FFUniverse ==
    {DevEv("EV_UINPUT", "UI_FF_UPLOAD", 0, RumbleEffect(65535, 32768)),
     DevEv("EV_UINPUT", "UI_FF_UPLOAD", 0, RumbleEffect(32768, 0)),
     DevEv("EV_UINPUT", "UI_FF_UPLOAD", 0,
           [type |-> "FF_PERIODIC", weak_magnitude |-> 0, strong_magnitude |-> 0]),
     DevEv("EV_UINPUT", "UI_FF_ERASE", 0, NoEffect),
     DevEv("EV_FF", "0", 1, NoEffect),
     DevEv("EV_FF", "0", 0, NoEffect),
     DevEv("EV_MSC", "MSC_TIMESTAMP", 1500, NoEffect),
     DevEv("EV_LED", "LED_MISC", 1, NoEffect)}

OsSend ==
    \E e \in FFUniverse :
        /\ dev # DevNone
        /\ Len(inq) < MaxQueue
        /\ inq' = Append(inq, e)
        /\ op' = "os"
        /\ NoCallRecord
        /\ raised' = FALSE
        /\ ret' = <<>>
        /\ lifecalls' = <<>>
        /\ ready' = {}
        /\ UNCHANGED <<dev, fd, touchpad_aspect, touch_id, rumble, config, plugins,
                       lastUpload, uploadedSinceClose, handleTouch>>

\* ------------------------------------------------------- abstract events
Ev(type, code, value) == [type |-> type, code |-> code, value |-> value]

\* Nanosecond counts (four limbs): 1 500 000; 500 (below one microsecond);
\* 2**32 * 1000 and (2**32 + 5) * 1000 + 999 (past the 32-bit wrap).
Ns1500000 == <<0, 0, 22, 58208>>
Ns500 == <<0, 0, 0, 500>>
NsWrap0 == <<0, 1000, 0, 0>>
NsWrap5 == <<0, 1000, 0, 5999>>

\* Batches of mapped axis and configuration events.
AxisUniverse ==
    {Ev("axis", "rs_x", <<40000, 1>>),
     Ev("axis", "rs_y", <<-3, 2>>),
     Ev("axis", "touchpad_x", <<2, 1>>), Ev("axis", "touchpad_x", <<11, 2>>),
     Ev("axis", "touchpad_y", <<2, 1>>),
     Ev("configuration", "touchpad_aspect_ratio", <<3, 2>>)}
AxisBatches == SeqsUpTo(AxisUniverse, MaxBatch)

\* Batches in which buttons and axes repeat.
DedupUniverse ==
    {Ev("button", "a", TRUE), Ev("button", "a", FALSE),
     Ev("axis", "touchpad_x", <<2, 1>>), Ev("axis", "touchpad_x", <<11, 2>>),
     Ev("axis", "rs_y", <<-3, 2>>),
     Ev("configuration", "touchpad_aspect_ratio", <<3, 2>>)}
DedupBatches == SeqsUpTo(DedupUniverse, MaxBatch)

\* Batches of touch press/release events.
TouchUniverse ==
    {Ev("button", "touchpad_touch", TRUE), Ev("button", "touchpad_touch", FALSE),
     Ev("button", "a", TRUE)}
TouchBatches == SeqsUpTo(TouchUniverse, MaxBatch)

\* Batches of touch press/release events alone.
TapUniverse ==
    {Ev("button", "touchpad_touch", TRUE), Ev("button", "touchpad_touch", FALSE)}
\* and, so that a call without a touch event and one with another button
\* beside it occur, two batches with a plain button.
TapBatches ==
    SeqsUpTo(TapUniverse, MaxBatch)
        \union {<<Ev("button", "a", TRUE)>>,
                <<Ev("button", "a", TRUE), Ev("button", "touchpad_touch", TRUE)>>}

\* Batches with sensor timestamps and a mapped button.
TsUniverse ==
    {Ev("axis", "gyro_ts", Ns1500000), Ev("axis", "gyro_ts", Ns500),
     Ev("axis", "gyro_ts", NsWrap5), Ev("axis", "accel_ts", NsWrap0),
     Ev("button", "a", TRUE)}
TsBatches == SeqsUpTo(TsUniverse, MaxBatch)

\* Readings of time.perf_counter_ns(); the clock is read only when
\* something was written and output_timestamps is set.
NowValues == {Ns500, NsWrap5}
ClockReads(evs) == IF output_timestamps /\ dev # DevNone THEN NowValues ELSE {Ns500}

ConsumeAxes == \E b \in AxisBatches : \E now \in ClockReads(b) : Consume(b, now)
ConsumeRepeats == \E b \in DedupBatches : \E now \in ClockReads(b) : Consume(b, now)
ConsumeTouch == \E b \in TouchBatches : \E now \in ClockReads(b) : Consume(b, now)
ConsumeTaps == \E b \in TapBatches : \E now \in ClockReads(b) : Consume(b, now)
ConsumeTs == \E b \in TsBatches : \E now \in ClockReads(b) : Consume(b, now)

\* Batches of touch and configuration events around open and close.
LifeUniverse ==
    {Ev("button", "touchpad_touch", TRUE), Ev("button", "touchpad_touch", FALSE),
     Ev("configuration", "touchpad_aspect_ratio", <<3, 2>>),
     Ev("axis", "touchpad_x", <<2, 1>>)}
LifeBatches == SeqsUpTo(LifeUniverse, MaxBatch)
ConsumeLife ==
    /\ touch_id <= MaxTouches
    /\ \E b \in LifeBatches : \E now \in ClockReads(b) : Consume(b, now)

\* Batches in which the aspect ratio is configured more than once.
AspectUniverse ==
    {Ev("configuration", "touchpad_aspect_ratio", <<3, 2>>),
     Ev("configuration", "touchpad_aspect_ratio", <<2, 1>>),
     Ev("axis", "touchpad_x", <<2, 1>>),
     Ev("axis", "touchpad_y", <<2, 1>>)}
AspectBatches == SeqsUpTo(AspectUniverse, MaxBatch)
ConsumeAspects == \E b \in AspectBatches : \E now \in ClockReads(b) : Consume(b, now)

\* Batches with unmapped codes: an axis and a button no map knows, a
\* sensor-timestamp code (enabled or not by output_imu_timestamps) and a
\* mapped button.
UnmappedUniverse ==
    {Ev("axis", "dpad_x", <<1, 2>>), Ev("button", "share", TRUE),
     Ev("axis", "accel_ts", Ns1500000), Ev("button", "a", TRUE)}
UnmappedBatches == SeqsUpTo(UnmappedUniverse, MaxBatch)
ConsumeUnmapped == \E b \in UnmappedBatches : \E now \in ClockReads(b) : Consume(b, now)

\* ------------------------------------------- RogAllyControllersPlugin
\* The variables of the virtual controller layer, which the plugins do not
\* touch.
uinput == <<dev, fd, touchpad_aspect, touch_id, rumble, config, inq, op,
            events, written, drained, out, acks, raised, ret, lifecalls,
            ready, lastUpload, uploadedSinceClose, handleTouch>>

\* The values of conf["controllers.rog_ally"] handed to update.
AllyConfs == {"dualsense", "dualsense_edge", "uinput", "xbox_elite", "hidden", "disabled"}

\* The record of a call that begins: nothing raised, started or joined yet.
AllyCall(a, name, arg) ==
    [a EXCEPT !.op = name, !.arg = arg, !.raised = FALSE, !.spawned = 0, !.joined = 0]

\* open(emit, context): stores its arguments and resets prev.
AllyOpen ==
    /\ ally.pc = "idle"
    /\ ally' = [AllyCall(ally, "open", PyNone) EXCEPT !.prev = PyNone]
    /\ UNCHANGED <<uinput, bootc, validation>>

\* `if not self.should_exit or not self.t: return` (an Event object is
\* always truthy).
NothingToStop(a) == a.should_exit = PyNone \/ a.t = 0

\* `if self.started: return`
AlreadyStartedNever(started) == FALSE
AlreadyStarted(started) == started

\* self.t.join(): returns once thread t has ended.
JoinedAtOnce(t, alive) == TRUE
Joined(t, alive) == t \notin alive

\* The tail of start: a new exit event and a new thread, which start()
\* sets running; if the OS refuses the thread (startOk is false), start()
\* raises RuntimeError and the exception leaves start and update.
Spawn(a, startOk) ==
    LET b == [a EXCEPT !.should_exit = "clear",
                       !.t = a.threads + 1,
                       !.threads = a.threads + 1]
    IN  IF startOk
        THEN [b EXCEPT !.alive = a.alive \union {b.t}, !.spawned = b.t]
        ELSE [b EXCEPT !.unstarted = a.unstarted \union {b.t}, !.raised = TRUE]

\* The tail of update, after start returned: self.updated.set().
UpdateTail(a) ==
    IF a.raised THEN [a EXCEPT !.pc = "idle"]
    ELSE [a EXCEPT !.updated = TRUE, !.pc = "idle"]

\* The head of close: set the exit event; the caller then waits in join.
\* Joining a thread that was never started raises RuntimeError at once,
\* and the exception leaves close (and start and update).
Signal(a, pc) ==
    IF a.t \in a.unstarted
    THEN [a EXCEPT !.should_exit = "set", !.raised = TRUE]
    ELSE [a EXCEPT !.should_exit = "set", !.pc = pc]

\* update(conf), up to its return or to the join in which it blocks.
\* Reading self.prev before open raises AttributeError.
AllyUpdate(conf, startOk) ==
    /\ ally.pc = "idle"
    /\ UNCHANGED <<uinput, bootc, validation>>
    /\ LET a == AllyCall(ally, "update", conf)
       IN  IF ally.prev = PrevUnset
           THEN ally' = [a EXCEPT !.raised = TRUE]
           ELSE IF conf = ally.prev
           THEN ally' = a
           ELSE LET b == [a EXCEPT !.prev = conf]
                IN  IF AlreadyStarted(b.started)
                    THEN ally' = UpdateTail(b)
                    ELSE LET c == [b EXCEPT !.started = TRUE]
                         IN  IF NothingToStop(c)
                             THEN ally' = UpdateTail(Spawn(c, startOk))
                             ELSE ally' = Signal(c, "start")

\* close(), up to its return or to the join in which it blocks.
AllyClose ==
    /\ ally.pc = "idle"
    /\ UNCHANGED <<uinput, bootc, validation>>
    /\ LET a == AllyCall(ally, "close", PyNone)
       IN  IF NothingToStop(a)
           THEN ally' = a
           ELSE ally' = Signal(a, "close")

\* The join returns: close clears should_exit and t and returns, to its
\* caller or into start, which goes on to create the thread.
AllyJoin(startOk) ==
    /\ ally.pc # "idle"
    /\ Joined(ally.t, ally.alive)
    /\ UNCHANGED <<uinput, bootc, validation>>
    /\ LET a == [ally EXCEPT !.should_exit = PyNone, !.t = 0, !.joined = ally.t]
       IN  IF ally.pc = "close"
           THEN ally' = [a EXCEPT !.pc = "idle"]
           ELSE ally' = UpdateTail(Spawn(a, startOk))

\* plugin_run returns once its exit event is set.
AllyWorkerExit ==
    /\ ally.should_exit = "set"
    /\ ally.t \in ally.alive
    /\ ally' = [ally EXCEPT !.alive = @ \ {ally.t}]
    /\ UNCHANGED <<uinput, bootc, validation>>

\* plugin_run picks up a changed configuration: it clears the updated
\* event and reloads.
AllyWorkerReloads ==
    /\ ally.updated
    /\ ally.t \in ally.alive
    /\ ally' = [ally EXCEPT !.updated = FALSE]
    /\ UNCHANGED <<uinput, bootc, validation>>

\* plugin_run ends on its own (an error it does not handle).
AllyWorkerDies ==
    /\ \E w \in ally.alive : ally' = [ally EXCEPT !.alive = @ \ {w}]
    /\ UNCHANGED <<uinput, bootc, validation>>

\* The calls when the OS always grants the thread.
AllyUpdates == \E conf \in AllyConfs : AllyUpdate(conf, TRUE)
AllyJoins == AllyJoin(TRUE)

\* The calls when the OS may refuse the thread.
AllyUpdatesMayFail == \E conf \in AllyConfs, startOk \in BOOLEAN : AllyUpdate(conf, startOk)
AllyJoinsMayFail == \E startOk \in BOOLEAN : AllyJoin(startOk)

\* ------------------------------------------------------------ BootcPlugin
\* The image tags of the model, and `branch in curr_tag`: the branch name
\* occurs in the tag ("stable" occurs in "unstable").
VersionTags == {"stable-41"}
Contains(branch, tag) ==
    \/ branch = tag
    \/ branch = "stable" /\ tag \in {"unstable"} \union VersionTags

\* get_branch(ref, branches) with fallback: the first branch whose name
\* occurs in the tag; the first branch if the reference has no tag or no
\* branch occurs in it.
GetBranch(tag) ==
    LET hits == {k \in 1..Len(Branches) : Contains(Branches[k], tag)}
    IN  IF tag = "" \/ hits = {}
        THEN Branches[1]
        ELSE Branches[CHOOSE k \in hits : \A j \in hits : k <= j]

\* _init: the image is on a tag that is not its branch.
RebasedVer(ref) == ref.tag # "" /\ ref.tag # GetBranch(ref.tag)
\* _init: img, the image with its tag replaced by the branch.
Img(ref) == IF ref.tag # "" THEN Ref(ref.name, GetBranch(ref.tag)) ELSE ref
\* _init: self.branch_ref, <<>> for None.
BranchRef(ref) == IF RebasedVer(ref) THEN <<Ref(ref.name, GetBranch(ref.tag))>> ELSE <<>>
\* _init: a staged version boots first; else a selected rollback.
Staged(status) == status.staged # ""
Rollback(status) ==
    ~Staged(status) /\ status.bootOrder = "rollback" /\ status.rollback # ""

\* is_incompatible(status)
IsIncompatible(status) ==
    status.apiVersion # "org.containers.bootc/v1" \/ status.incompatible

\* _init: the stage it selects.
InitStage(status) ==
    IF IsIncompatible(status) THEN "incompatible"
    ELSE IF /\ status.cachedVersion # ""
            /\ status.cachedImage = Img(status.image)
            /\ status.cachedVersion # status.staged
    THEN "ready"
    ELSE IF Staged(status) THEN "ready_updated"
    ELSE IF RebasedVer(status.image) THEN "ready_rebased"
    ELSE IF Rollback(status) THEN "ready_reverted"
    ELSE "ready_check"

\* self.state = ...; conf["updates.bootc.stage.mode"] = ...
PublishStateOnly(b, state, mode) == [b EXCEPT !.state = state]
Publish(b, state, mode) == [b EXCEPT !.state = state, !.mode = mode]

\* _init(conf) with status the result of get_bootc_status().  For {} the
\* assertion of get_version fails after branch_name and branch_ref were
\* assigned, and AssertionError leaves _init and update.
BInit(b, status) ==
    LET c == [b EXCEPT !.status = status,
                       !.branch_name = GetBranch(status.image.tag),
                       !.branch_ref = BranchRef(status.image)]
    IN  IF status.dict = "empty"
        THEN [c EXCEPT !.raised = TRUE]
        ELSE Publish([c EXCEPT !.updated = "True"],
                     InitStage(status), InitStage(status))

\* self.proc = run_command_threaded(cmd): the new Popen object, or None if
\* Popen raised.  A still running process self.proc referred to is left
\* running without a reference.
Launch(b, cmd, popenOk) ==
    [b EXCEPT !.proc = IF popenOk THEN "running" ELSE PyNone,
              !.orphans = IF b.proc = "running" THEN @ + 1 ELSE @,
              !.launched = cmd]

\* A loader started on the mapping self.t_data already refers to, emptied in
\* place: a loader thread still alive goes on writing into it.
StartLoaderShared(b) ==
    [b EXCEPT !.t_data = "empty",
              !.t = "alive",
              !.writers = @ + 1,
              !.stale = IF b.t = "alive" THEN @ + 1 ELSE @]

\* self.t_data = {}; self.t = Thread(get_rebase_refs, ...); self.t.start():
\* the thread is given the new mapping, which no earlier thread was given.
StartLoader(b) ==
    [b EXCEPT !.t_data = "empty",
              !.t = "alive",
              !.writers = 1,
              !.stale = IF b.t = "alive" THEN @ + 1 ELSE @]

ReadyStages ==
    {"ready", "ready_check", "ready_updated", "ready_reverted", "ready_rebased"}

\* update in a ready stage e: the update, revert, rebase and reboot actions.
UpdateReady(b, e, pressed, status, popenOk) ==
    IF "update" \in pressed
    THEN IF e = "ready_rebased" /\ b.branch_ref # <<>>
         THEN Publish(Launch([b EXCEPT !.checked_update = FALSE], "switch", popenOk),
                      "loading_cancellable", "loading_cancellable")
         ELSE IF e = "ready"
         THEN Publish(Launch([b EXCEPT !.checked_update = FALSE], "update", popenOk),
                      "loading_cancellable", "loading_cancellable")
         ELSE Publish([Launch(b, "status", popenOk) EXCEPT !.checked_update = TRUE],
                      "loading", "loading")
    ELSE IF "revert" \in pressed
    THEN Publish(Launch([b EXCEPT !.checked_update = FALSE], "rollback", popenOk),
                 "loading", "loading")
    ELSE IF "rebase" \in pressed
    THEN LET c == [b EXCEPT !.checked_update = FALSE]
         IN  IF Len(Branches) = 0
             THEN BInit(c, status)
             ELSE Publish(StartLoader(c), "loading_rebase", "loading")
    ELSE IF "reboot" \in pressed
    THEN [b EXCEPT !.rebooted = TRUE]
    ELSE b

\* update in stage incompatible: the reset action.
UpdateIncompatible(b, pressed, popenOk) ==
    IF "reset" \in pressed
    THEN Publish(Launch(b, "reset", popenOk), "loading", "loading")
    ELSE b

\* The tag the dialog's branch and version selection resolves to: a branch
\* (version "latest"), or a version of the loaded list.
Picks(b) ==
    {Branches[k] : k \in 1..Len(Branches)}
        \union (IF b.t_data = "filled" THEN VersionTags ELSE {})

\* next_ref == curr
NextRefIsCurrent(status, pick) == status.image.tag # "" /\ status.image.tag = pick

\* update in stage rebase_dialog or loading_rebase (e).
UpdateRebase(b, e, pressed, status, popenOk, pick) ==
    IF e = "loading_rebase" /\ b.t = PyNone THEN BInit(b, status)
    ELSE IF e = "loading_rebase" /\ b.t = "alive" THEN b
    ELSE LET c == IF e = "loading_rebase"
                  THEN Publish([b EXCEPT !.t = PyNone], "rebase_dialog", "rebase")
                  ELSE b
         IN  IF "cancel" \in pressed THEN BInit(c, status)
             ELSE IF "apply" \in pressed
             THEN IF NextRefIsCurrent(c.status, pick)
                  THEN BInit(c, status)
                  ELSE Publish(Launch(c, "switch", popenOk),
                               "loading_cancellable", "loading_cancellable")
             ELSE c

\* update in stage loading_cancellable or loading: wait for the subprocess;
\* only loading_cancellable reads the cancel action.
UpdateLoading(b, e, pressed, status) ==
    IF b.proc = PyNone THEN BInit(b, status)
    ELSE IF b.proc = "exited"
    THEN LET c == BInit(b, status)
         IN  IF c.raised THEN c ELSE [c EXCEPT !.proc = PyNone]
    ELSE IF e = "loading_cancellable" /\ "cancel" \in pressed
    THEN BInit([b EXCEPT !.proc = PyNone, !.interrupted = TRUE], status)
    ELSE b

\* The actions update reads in a stage.
ActionsRead(state) ==
    IF state \in ReadyStages THEN {"update", "revert", "rebase", "reboot"}
    ELSE IF state = "incompatible" THEN {"reset"}
    ELSE IF state \in {"rebase_dialog", "loading_rebase"} THEN {"apply", "cancel"}
    ELSE IF state = "loading_cancellable" THEN {"cancel"}
    ELSE {}

\* The record of a call that begins.
BootcCall(b, name, pressed) ==
    [b EXCEPT !.op = name, !.pressed = pressed, !.raised = FALSE,
              !.launched = "none", !.interrupted = FALSE, !.rebooted = FALSE]

\* update(conf).  pressed: the actions set in conf; status: what the status
\* command returns if run; popenOk: whether a subprocess can be created;
\* pick: the selection of the rebase dialog.
BootcUpdate(pressed, status, popenOk, pick) ==
    LET b == BootcCall(bootc, "update", pressed)
        e == b.state
        r == IF b.mode = PyNone \/ e = "init" THEN BInit(b, status)
             ELSE IF e \in ReadyStages THEN UpdateReady(b, e, pressed, status, popenOk)
             ELSE IF e = "incompatible" THEN UpdateIncompatible(b, pressed, popenOk)
             ELSE IF e \in {"rebase_dialog", "loading_rebase"}
             THEN UpdateRebase(b, e, pressed, status, popenOk, pick)
             ELSE UpdateLoading(b, e, pressed, status)
    IN  /\ r.orphans <= MaxOrphans
        /\ r.stale <= MaxStale
        /\ bootc' = r
        /\ UNCHANGED <<uinput, ally, validation>>

\* open(emit, context)
BootcOpen ==
    /\ bootc' = [BootcCall(bootc, "open", {}) EXCEPT !.updated = "False"]
    /\ UNCHANGED <<uinput, ally, validation>>

\* close(): interrupt and wait for the subprocess, join the loader thread.
\* loaderOk: whether the loader, if still running, loads the versions
\* before it ends.
BootcClose(loaderOk) ==
    /\ bootc' = [BootcCall(bootc, "close", {}) EXCEPT
                    !.interrupted = bootc.proc # PyNone,
                    !.proc = PyNone,
                    !.t = PyNone,
                    !.writers = IF bootc.t = "alive" THEN @ - 1 ELSE @,
                    !.t_data = IF bootc.t = "alive" /\ loaderOk THEN "filled" ELSE @]
    /\ UNCHANGED <<uinput, ally, validation>>

\* A step of the plugin's surroundings: no call of the plugin is the most
\* recent event any more.
BootcEnv(b) == BootcCall(b, "env", {})

\* The UI resets the settings: the conf value of the stage is gone.
BootcReset ==
    /\ bootc.mode # PyNone
    /\ bootc' = [BootcEnv(bootc) EXCEPT !.mode = PyNone]
    /\ UNCHANGED <<uinput, ally, validation>>

\* The subprocess self.proc refers to ends.
BootcProcExits ==
    /\ bootc.proc = "running"
    /\ bootc' = [BootcEnv(bootc) EXCEPT !.proc = "exited"]
    /\ UNCHANGED <<uinput, ally, validation>>

\* A subprocess without a reference ends.
BootcOrphanExits ==
    /\ bootc.orphans > 0
    /\ bootc' = [BootcEnv(bootc) EXCEPT !.orphans = @ - 1]
    /\ UNCHANGED <<uinput, ally, validation>>

\* get_rebase_refs fills the mapping it was given.
BootcLoaderFills ==
    /\ bootc.t = "alive"
    /\ bootc.t_data = "empty"
    /\ bootc' = [BootcEnv(bootc) EXCEPT !.t_data = "filled"]
    /\ UNCHANGED <<uinput, ally, validation>>

\* get_rebase_refs returns, after filling the mapping or after its error.
BootcLoaderEnds ==
    /\ bootc.t = "alive"
    /\ bootc' = [BootcEnv(bootc) EXCEPT !.t = "ended", !.writers = @ - 1]
    /\ UNCHANGED <<uinput, ally, validation>>

\* A loader thread without a reference ends.
BootcStaleEnds ==
    /\ bootc.stale > 0
    /\ bootc' = [BootcEnv(bootc) EXCEPT !.stale = @ - 1]
    /\ UNCHANGED <<uinput, ally, validation>>

\* What the status command can report.
ApiV1 == "org.containers.bootc/v1"
StatusUniverse ==
    {StatusEmpty,
     Status("full", "v0", Ref("bazzite", "stable"), "default", "", "", "1.0", FALSE, "", NoRef),
     Status("full", ApiV1, Ref("bazzite", "stable"), "default", "", "0.9", "1.0", FALSE, "", NoRef),
     Status("full", ApiV1, Ref("bazzite", "stable"), "default", "", "0.9", "1.0", FALSE,
            "1.1", Ref("bazzite", "stable")),
     Status("full", ApiV1, Ref("bazzite", "stable"), "default", "1.1", "0.9", "1.0", FALSE,
            "1.1", Ref("bazzite", "stable")),
     Status("full", ApiV1, Ref("bazzite", "stable-41"), "default", "", "0.9", "1.0", FALSE, "", NoRef),
     Status("full", ApiV1, Ref("bazzite", "stable"), "rollback", "", "0.9", "1.0", FALSE, "", NoRef)}

\* The inputs a call of update can consume, by the stage it is called in:
\* the ready stages and incompatible do not run the status command, only
\* they and the rebase dialog create a subprocess, only the dialog reads
\* the selection.
Resets(b) == b.mode = PyNone \/ b.state = "init"
StatusRead(b) ==
    IF ~Resets(b) /\ b.state \in ReadyStages \union {"incompatible"}
    THEN {StatusEmpty} ELSE StatusUniverse
PopenTried(b) ==
    IF ~Resets(b) /\ b.state \in ReadyStages \union {"incompatible", "rebase_dialog", "loading_rebase"}
    THEN BOOLEAN ELSE {TRUE}
PicksRead(b) ==
    IF ~Resets(b) /\ b.state \in {"rebase_dialog", "loading_rebase"}
    THEN Picks(b) ELSE {Branches[1]}
\* The cancel action of loading_cancellable can also be set in conf while
\* the stage is loading, where update does not read it.
PressedRead(b) ==
    IF Resets(b) THEN {{}}
    ELSE IF b.state = "loading" THEN SUBSET {"cancel"}
    ELSE SUBSET ActionsRead(b.state)

BootcUpdates ==
    \E pressed \in PressedRead(bootc) :
        \E status \in StatusRead(bootc), popenOk \in PopenTried(bootc), pick \in PicksRead(bootc) :
            BootcUpdate(pressed, status, popenOk, pick)
BootcCloses == \E loaderOk \in BOOLEAN : BootcClose(loaderOk)

\* ---------------------------------------------------------------- settings
\* A Python value as validate_config sees it.  kind is "none" (None, or no
\* value under the key: conf.get(k, None)), "int", "float", "str", "map" (a
\* Mapping) or "missing" (a tag a setting does not declare).  n is twice
\* the number of an int or a float, which makes the halves exact.  value,
\* max, unit and text are the entries of a mapping under these keys:
\* "absent", "none", "num" (an int or a float) or "str".
NoneVal ==
    [kind |-> "none", n |-> 0,
     value |-> "absent", max |-> "absent", unit |-> "absent", text |-> "absent"]
Missing == [NoneVal EXCEPT !.kind = "missing"]
IntVal(i) == [NoneVal EXCEPT !.kind = "int", !.n = 2 * i]
FloatVal(halves) == [NoneVal EXCEPT !.kind = "float", !.n = halves]
StrVal == [NoneVal EXCEPT !.kind = "str"]
MapVal(value, max, unit, text) ==
    [kind |-> "map", n |-> 0,
     value |-> value, max |-> max, unit |-> unit, text |-> text]

\* A setting: its type, its tags and the tags of TYPE_TAGS and DEFAULT_TAGS
\* validate_config reads.
Setting(type, tags, min, max, default) ==
    [type |-> type, tags |-> tags, min |-> min, max |-> max, default |-> default]

\* Before any setting is registered.
ValidationNew ==
    [d |-> Setting("none", {}, NoneVal, NoneVal, NoneVal), v |-> NoneVal,
     op |-> "init", use_defaults |-> FALSE, accepted |-> FALSE, raised |-> FALSE]

\* pick_tag(tag, default, a, None): a.get(tag, default)
PickTag(default, declared) == IF declared = Missing THEN default ELSE declared

\* TYPE_TAGS["int"] and TYPE_TAGS["float"]: min and max default to None.
TypeTagsBound == NoneVal

\* DEFAULT_TAGS["default"]
DefaultTagsDefault == NoneVal

\* merge_reduce(a) for a setting a that is no container and no mode.
MergeReduce(a) ==
    [a EXCEPT !.default = PickTag(DefaultTagsDefault, a.default),
              !.min = IF a.type \in {"int", "float"}
                      THEN PickTag(TypeTagsBound, a.min) ELSE a.min,
              !.max = IF a.type \in {"int", "float"}
                      THEN PickTag(TypeTagsBound, a.max) ELSE a.max]

\* bool(value) of a value
Truthy(value) ==
    CASE value.kind = "none" -> FALSE
      [] value.kind \in {"int", "float"} -> value.n # 0
      [] value.kind = "map" ->
            \E key \in {"value", "max", "unit", "text"} : value[key] # "absent"
      [] OTHER -> TRUE

\* standard_validator(tags, config, value): "False", "None" (the function
\* ends without a return statement) or "KeyError" (value["max"] of a
\* mapping without that key).
StandardValidator(tags, value) ==
    IF "progress" \notin tags THEN "None"
    ELSE IF ~Truthy(value) THEN "False"
    ELSE IF value.kind # "map" THEN "False"
    ELSE IF value.value # "absent" /\ value.value # "num" THEN "False"
    ELSE IF value.max = "absent" /\ value.value # "absent" THEN "False"
    ELSE IF value.max = "absent" THEN "KeyError"
    ELSE IF value.max # "num" THEN "False"
    ELSE IF value.unit # "absent" /\ value.unit # "str" THEN "False"
    ELSE IF value.text # "absent" /\ value.text # "str" THEN "False"
    ELSE "None"

\* int(v) and float(v) of a number: int truncates toward zero.
TruncHalves(n) == IF n >= 0 THEN n \div 2 ELSE -((-n) \div 2)
ToInt(v) == [v EXCEPT !.kind = "int", !.n = 2 * TruncHalves(v.n)]
ToFloat(v) == [v EXCEPT !.kind = "float"]

\* The outcome of validate_config for one key: the value then stored and
\* whether the call raised.
Outcome(v, exc) == [v |-> v, raised |-> exc]

\* case "int" | "integer" and case "float" for a number v: the conversion is
\* stored, then the value read at first is compared with the bounds, and a
\* comparison with None raises TypeError.
ValidateNumber(d, v) ==
    LET c1 == IF v.kind = d.type THEN v
              ELSE IF d.type = "int" THEN ToInt(v) ELSE ToFloat(v)
    IN  IF d.min.kind = "none" THEN Outcome(c1, TRUE)
        ELSE LET c2 == IF v.n < d.min.n THEN d.min ELSE c1
             IN  IF d.max.kind = "none" THEN Outcome(c2, TRUE)
                 ELSE Outcome(IF v.n > d.max.n THEN d.max ELSE c2, FALSE)

\* case "custom": the plugins' validator, then standard_validator.
ValidateCustom(d, v, accepted, use_defaults) ==
    IF accepted THEN Outcome(v, FALSE)
    ELSE IF StandardValidator(d.tags, v) = "KeyError" THEN Outcome(v, TRUE)
    ELSE Outcome(IF use_defaults THEN d.default ELSE NoneVal, FALSE)

\* The body of validate_config's loop for the key of setting d.
ValidateKey(d, v, accepted, use_defaults) ==
    IF v.kind = "none"
    THEN Outcome(IF use_defaults /\ d.default.kind # "none" THEN d.default ELSE v,
                 FALSE)
    ELSE IF d.type \in {"int", "float"} THEN ValidateNumber(d, v)
    ELSE ValidateCustom(d, v, accepted, use_defaults)

\* The plugins register a setting and conf holds v under its key.
ValidationLoad(a, v) ==
    /\ validation.op = "init"
    /\ validation' = [d |-> MergeReduce(a), v |-> v, op |-> "load",
                      use_defaults |-> FALSE, accepted |-> FALSE, raised |-> FALSE]
    /\ UNCHANGED <<uinput, ally, bootc>>

\* The user or a plugin stores v under the setting's key.
ValidationSet(v) ==
    /\ validation.d.type # "none"
    /\ validation' = [validation EXCEPT !.v = v, !.op = "set", !.raised = FALSE,
                                        !.use_defaults = FALSE,
                                        !.accepted = FALSE]
    /\ UNCHANGED <<uinput, ally, bootc>>

\* validate_config(conf, settings, validator, use_defaults); accepted is
\* what the plugins' validator answers for the value.
ValidateConfig(accepted, use_defaults) ==
    /\ validation.d.type # "none"
    /\ LET r == ValidateKey(validation.d, validation.v, accepted, use_defaults)
       IN  validation' = [validation EXCEPT !.v = r.v, !.raised = r.raised,
                                            !.op = "validate",
                                            !.use_defaults = use_defaults,
                                            !.accepted = accepted]
    /\ UNCHANGED <<uinput, ally, bootc>>

\* The numbers of the settings' bounds, defaults and values.
Numbers(type) ==
    IF type = "int" THEN {IntVal(i) : i \in 0..MaxNumber}
    ELSE {FloatVal(h) : h \in 0..(2 * MaxNumber)}
NumberValues ==
    {IntVal(i) : i \in -1..(MaxNumber + 1)}
        \union {FloatVal(h) : h \in -1..(2 * MaxNumber + 1)}

\* The int and float settings plugins declare: each bound a number or left
\* out, min <= max, the default None or within the bounds.
NumberSettings ==
    UNION {{Setting(type, {}, min, max, default) :
                min \in Numbers(type) \union {Missing},
                max \in Numbers(type) \union {Missing},
                default \in Numbers(type) \union {Missing}} :
           type \in {"int", "float"}}
DeclaredNumberSettings ==
    {a \in NumberSettings :
        /\ (a.min # Missing /\ a.max # Missing) => a.min.n <= a.max.n
        /\ (a.default # Missing /\ a.min # Missing) => a.min.n <= a.default.n
        /\ (a.default # Missing /\ a.max # Missing) => a.default.n <= a.max.n}

\* The mappings a custom setting's value can be.
MapEntries == {"absent", "none", "num", "str"}
MapValues ==
    {MapVal(value, max, unit, text) :
        value \in MapEntries, max \in MapEntries,
        unit \in {"absent", "none", "str"}, text \in {"absent", "str"}}
CustomValues == MapValues \union {NoneVal, StrVal, IntVal(0)}
CustomSettings ==
    {Setting("custom", tags, NoneVal, NoneVal, default) :
        tags \in {{}, {"progress"}},
        default \in {Missing, MapVal("absent", "absent", "absent", "str")}}

ValidationLoads ==
    \/ \E a \in DeclaredNumberSettings, v \in NumberValues \union {NoneVal} :
            ValidationLoad(a, v)
    \/ \E a \in CustomSettings, v \in CustomValues : ValidationLoad(a, v)
ValidationSets ==
    \E v \in IF validation.d.type = "custom"
              THEN CustomValues ELSE NumberValues \union {NoneVal} :
        ValidationSet(v)
ValidateConfigs ==
    \E accepted \in BOOLEAN, use_defaults \in BOOLEAN :
        ValidateConfig(accepted, use_defaults)

\* ---------------------------------------------------------- specifications
\* The constructor defaults: no timestamps, commands not ignored.
DefaultConfig ==
    /\ output_imu_timestamps = "False"
    /\ output_timestamps = FALSE
    /\ ignore_cmds = FALSE
    /\ btn_map = TouchButtonMap

\* The state after construction.
Init ==
    /\ dev = DevNone
    /\ fd = FdUnset
    /\ touchpad_aspect = AspectUnset
    /\ touch_id = TouchUnset
    /\ rumble = <<>>
    /\ output_imu_timestamps \in ImuSettings
    /\ output_timestamps \in BOOLEAN
    /\ ignore_cmds \in BOOLEAN
    /\ btn_map \in ButtonMaps
    /\ inq = <<>>
    /\ op = "init"
    /\ events = <<>>
    /\ written = <<>>
    /\ drained = <<>>
    /\ out = <<>>
    /\ acks = <<>>
    /\ raised = FALSE
    /\ ret = <<>>
    /\ lifecalls = <<>>
    /\ ready = {}
    /\ lastUpload = <<>>
    /\ uploadedSinceClose = FALSE
    /\ handleTouch = "none"
    /\ ally = AllyNew
    /\ bootc = BootcNew
    /\ validation = ValidationNew

InitDefault == Init /\ DefaultConfig

NextAxis == Open \/ Close \/ ConsumeAxes
SpecAxis == InitDefault /\ [][NextAxis]_vars

NextDedup == Open \/ Close \/ ConsumeRepeats
SpecDedup == InitDefault /\ [][NextDedup]_vars

NextTouch == Open \/ Close \/ ConsumeTouch
SpecTouch == InitDefault /\ [][NextTouch]_vars

\* The tracking id over its whole range.
NextTaps == Open \/ Close \/ ConsumeTaps
SpecTaps == InitDefault /\ [][NextTaps]_vars

InitTs == Init /\ ignore_cmds = FALSE /\ btn_map = TouchButtonMap
NextTs == Open \/ Close \/ ConsumeTs
SpecTs == InitTs /\ [][NextTs]_vars

\* Force feedback: default timestamps, commands ignored or not.
InitFF ==
    /\ Init
    /\ output_imu_timestamps = "False"
    /\ output_timestamps = FALSE
    /\ btn_map = TouchButtonMap
NextFF == Open \/ Close \/ OsSend \/ ProduceReady
SpecFF == InitFF /\ [][NextFF]_vars

\* The lifecycle: default timestamps, commands ignored or not.
NextLife == Open \/ Close \/ ConsumeLife
SpecLife == InitFF /\ [][NextLife]_vars

\* Touch events with and without touchpad_touch in the button map.
InitButtons ==
    /\ Init
    /\ output_imu_timestamps = "False"
    /\ output_timestamps = FALSE
    /\ ignore_cmds = FALSE
NextButtons == Open \/ Close \/ ConsumeLife
SpecButtons == InitButtons /\ [][NextButtons]_vars

\* The lifecycle when releasing the device may fail.
NextRelease == Open \/ CloseMayRaise \/ ConsumeLife
SpecRelease == InitDefault /\ [][NextRelease]_vars

\* Repeated aspect-ratio configuration.
NextAspect == Open \/ Close \/ ConsumeAspects
SpecAspect == InitDefault /\ [][NextAspect]_vars

\* Unmapped codes under every timestamp setting.
NextUnmapped == Open \/ Close \/ ConsumeUnmapped
SpecUnmapped == InitTs /\ [][NextUnmapped]_vars

\* The controller plugin with a worker that runs until told to exit.
NextAlly == AllyOpen \/ AllyUpdates \/ AllyClose \/ AllyJoins \/ AllyWorkerReloads \/ AllyWorkerExit
SpecAlly == InitDefault /\ [][NextAlly]_vars

\* The controller plugin with a worker that may also fail to start or end
\* on its own.
NextAllyDies ==
    \/ AllyOpen \/ AllyUpdatesMayFail \/ AllyClose \/ AllyJoinsMayFail
    \/ AllyWorkerReloads \/ AllyWorkerExit \/ AllyWorkerDies
SpecAllyDies == InitDefault /\ [][NextAllyDies]_vars

\* The updater plugin, its subprocesses, its loader threads and the UI.
NextBootc ==
    \/ BootcUpdates \/ BootcCloses \/ BootcReset
    \/ BootcProcExits \/ BootcOrphanExits
    \/ BootcLoaderFills \/ BootcLoaderEnds \/ BootcStaleEnds
SpecBootc == InitDefault /\ [][NextBootc]_vars

\* The validation of the configuration against the registered settings.
NextValidate == ValidationLoads \/ ValidationSets \/ ValidateConfigs
SpecValidate == InitDefault /\ [][NextValidate]_vars

\* The whole program: the virtual controller layer and the two plugins.
Next ==
    \/ Open \/ Close \/ ConsumeAxes \/ ConsumeRepeats \/ ConsumeTouch \/ ConsumeTaps
    \/ ConsumeTs \/ ConsumeLife \/ ConsumeUnmapped \/ ConsumeAspects
    \/ CloseMayRaise \/ OsSend \/ ProduceReady
    \/ NextAllyDies
    \/ BootcOpen \/ NextBootc
    \/ NextValidate
Spec == Init /\ [][Next]_vars

\* ================================================================= claims
\* Vocabulary of the properties, stated on a batch evs, the device calls ws
\* it caused and the aspect ratio before the call.
IsMappedAxis(ev) == ev.type = "axis" /\ ev.code \in DOMAIN axis_map
IsMappedButton(ev) == ev.type = "button" /\ ev.code \in DOMAIN btn_map
IsAspectConfig(ev) == ev.type = "configuration" /\ ev.code = "touchpad_aspect_ratio"

\* i is the last position of its (kind, code) in the batch.
LastOfKey(evs, i) == \A j \in (i + 1)..Len(evs) : Key(evs[j]) # Key(evs[i])
SharesKey(evs, i) == \E j \in 1..Len(evs) : j # i /\ Key(evs[j]) = Key(evs[i])

\* The device calls caused by position i, in order.
WritesFrom(ws, i) == SelectSeq(ws, LAMBDA w : w.src = i)

\* The aspect ratio in force when position i is visited: the batch is
\* scanned from its end, so it is the one set by the nearest aspect-ratio
\* event after i, else the ratio before the call.
AspectAt(evs, i, aspect0) ==
    LET later == {j \in (i + 1)..Len(evs) : IsAspectConfig(evs[j])}
    IN  IF later = {} THEN aspect0
        ELSE evs[CHOOSE j \in later : \A k \in later : j <= k].value

\* Integer quotient rounded toward zero (b > 0).
TruncDiv(a, b) == IF a >= 0 THEN a \div b ELSE -((-a) \div b)

\* clamp(v, bounds) for an integer v of axis mapping ax.
Clamped(v, ax) ==
    IF ax.bounds = <<>> THEN v
    ELSE IF v < ax.bounds[1] THEN ax.bounds[1]
    ELSE IF v > ax.bounds[2] THEN ax.bounds[2]
    ELSE v

\* scale*raw + offset as the fraction TNum/TDen.
TNum(ev) == axis_map[ev.code].scale * ev.value[1] + axis_map[ev.code].offset * ev.value[2]
TDen(ev) == ev.value[2]

\* What the code writes for a mapped axis event: the transformed value,
\* multiplied by the aspect ratio for touchpad_x only, truncated toward
\* zero, then clamped.
ExpectedAxisValue(ev, aspect) ==
    Clamped(IF ev.code = "touchpad_x"
            THEN TruncDiv(aspect[1] * TNum(ev), aspect[2] * TDen(ev))
            ELSE TruncDiv(TNum(ev), TDen(ev)),
            axis_map[ev.code])

\* The integer n is exactly clamp(p/q, bounds of ax), with no rounding.
IsExactClamp(n, p, q, ax) ==
    IF ax.bounds # <<>> /\ p < ax.bounds[1] * q THEN n = ax.bounds[1]
    ELSE IF ax.bounds # <<>> /\ p > ax.bounds[2] * q THEN n = ax.bounds[2]
    ELSE n * q = p

\* The primary device call of a mapped event at position i.
PrimaryWrite(ev, i, aspect) ==
    IF ev.type = "axis"
    THEN W("EV_ABS", axis_map[ev.code].id, ExpectedAxisValue(ev, aspect), i)
    ELSE W("EV_KEY", btn_map[ev.code], IF ev.value THEN 1 ELSE 0, i)
IsPrimaryOf(w, ev) ==
    IF ev.type = "axis"
    THEN w.etype = "EV_ABS" /\ w.code = axis_map[ev.code].id
    ELSE w.etype = "EV_KEY" /\ w.code = btn_map[ev.code]

\* The step is a consume call on an open device.
ConsumedOpen == op = "consume" /\ dev # DevNone
ConsumeStep == op' = "consume" /\ dev # DevNone

\* C1: within one consume call on an open device, when two or more events of
\* the batch share a mapped (kind, code), exactly one device write for that
\* key occurs (plus the touch mirror of a touch axis), it carries the value
\* of the last of them in the batch, and the earlier ones cause no write.
C1_LatestDuplicateWins ==
    [][ConsumeStep =>
        \A i \in 1..Len(events') :
            LET ev == events'[i]
                ws == WritesFrom(written', i)
            IN  (IsMappedAxis(ev) \/ IsMappedButton(ev)) /\ SharesKey(events', i) =>
                    IF LastOfKey(events', i)
                    THEN /\ Len(ws) >= 1
                         /\ ws[1] = PrimaryWrite(ev, i, AspectAt(events', i, touchpad_aspect))
                         /\ Cardinality({k \in 1..Len(written') :
                                IsPrimaryOf(written'[k], ev)}) = 1
                         /\ \A k \in 2..Len(ws) :
                                ws[k].code \in {"ABS_MT_POSITION_X", "ABS_MT_POSITION_Y"}
                    ELSE ws = <<>>]_vars

C1_Witness ==
    /\ ConsumedOpen
    /\ events = <<Ev("axis", "touchpad_x", <<11, 2>>), Ev("axis", "touchpad_x", <<2, 1>>)>>
    /\ written = <<W("EV_ABS", "ABS_X", 5, 2), W("EV_ABS", "ABS_MT_POSITION_X", 5, 2),
                   W("EV_SYN", "SYN_REPORT", 0, 0)>>

\* C2 as stated: every mapped axis event is written as exactly
\* clamp(scale*raw + offset, bounds).
C2_Original ==
    ConsumedOpen =>
        \A i \in 1..Len(events) :
            IsMappedAxis(events[i]) /\ LastOfKey(events, i) =>
                /\ WritesFrom(written, i) # <<>>
                /\ IsExactClamp(WritesFrom(written, i)[1].value,
                                TNum(events[i]), TDen(events[i]), axis_map[events[i].code])

\* C2 (amended): every mapped axis event that is the last of its key is
\* written to its device axis as clamp(int(v), bounds), where v is
\* scale*raw + offset (times the aspect ratio for touchpad_x) and int()
\* truncates toward zero; the bounds apply after the transform and a mapping
\* without bounds is written unclamped.  Scenario A: raw 40000 writes 32767.
C2_TruncatedClamp ==
    [][ConsumeStep =>
        \A i \in 1..Len(events') :
            LET ev == events'[i]
                ws == WritesFrom(written', i)
            IN  IsMappedAxis(ev) /\ LastOfKey(events', i) =>
                    /\ ws # <<>>
                    /\ ws[1].etype = "EV_ABS"
                    /\ ws[1].code = axis_map[ev.code].id
                    /\ ws[1].value = ExpectedAxisValue(ev, AspectAt(events', i, touchpad_aspect))
                    /\ (ev = Ev("axis", "rs_x", <<40000, 1>>) => ws[1].value = 32767)
                    /\ (ev = Ev("axis", "rs_y", <<-3, 2>>) => ws[1].value = -3)]_vars

C2_Witness ==
    /\ ConsumedOpen
    /\ events = <<Ev("axis", "rs_y", <<-3, 2>>), Ev("axis", "rs_x", <<40000, 1>>)>>
    /\ written = <<W("EV_ABS", "ABS_RX", 32767, 2), W("EV_ABS", "ABS_RY", -3, 1),
                   W("EV_SYN", "SYN_REPORT", 0, 0)>>

\* C3 as stated (the product read as converted to an integer, as in C2):
\* for touchpad_x and for touchpad_y the value written is
\* clamp(aspect_ratio * (scale*raw + offset), bounds).
C3_Original ==
    [][ConsumeStep =>
        \A i \in 1..Len(events') :
            LET ev == events'[i]
                a  == AspectAt(events', i, touchpad_aspect)
            IN  IsMappedAxis(ev) /\ ev.code \in {"touchpad_x", "touchpad_y"}
                    /\ LastOfKey(events', i) =>
                    /\ WritesFrom(written', i) # <<>>
                    /\ WritesFrom(written', i)[1].value =
                           Clamped(TruncDiv(a[1] * TNum(ev), a[2] * TDen(ev)),
                                   axis_map[ev.code])]_vars

\* C3 (amended): only touchpad_x is multiplied by the aspect ratio: it is
\* written as clamp(int(aspect_ratio * (scale*raw + offset)), bounds), the
\* multiply after scale/offset and before the truncation and the clamp, with
\* the aspect ratio in force when the event is visited; touchpad_y is
\* written as clamp(int(scale*raw + offset), bounds) whatever the ratio.
C3_AspectOnTouchpadX ==
    [][ConsumeStep =>
        \A i \in 1..Len(events') :
            LET ev == events'[i]
                a  == AspectAt(events', i, touchpad_aspect)
                ws == WritesFrom(written', i)
            IN  IsMappedAxis(ev) /\ LastOfKey(events', i) =>
                    /\ ev.code = "touchpad_x" =>
                          /\ ws # <<>>
                          /\ ws[1].value =
                                 Clamped(TruncDiv(a[1] * TNum(ev), a[2] * TDen(ev)),
                                         axis_map[ev.code])
                          /\ (a = <<3, 2>> /\ ev.value = <<2, 1>> => ws[1].value = 7)
                          /\ (a = <<3, 2>> /\ ev.value = <<11, 2>> => ws[1].value = 10)
                    /\ ev.code = "touchpad_y" =>
                          /\ ws # <<>>
                          /\ ws[1].value =
                                 Clamped(TruncDiv(TNum(ev), TDen(ev)), axis_map[ev.code])
                          /\ (ev.value = <<2, 1>> => ws[1].value = 5)]_vars

C3_Witness ==
    /\ ConsumedOpen
    /\ touchpad_aspect = <<3, 2>>
    /\ events = <<Ev("axis", "touchpad_y", <<2, 1>>), Ev("axis", "touchpad_x", <<2, 1>>)>>
    /\ written = <<W("EV_ABS", "ABS_X", 7, 2), W("EV_ABS", "ABS_MT_POSITION_X", 7, 2),
                   W("EV_ABS", "ABS_Y", 5, 1), W("EV_ABS", "ABS_MT_POSITION_Y", 5, 1),
                   W("EV_SYN", "SYN_REPORT", 0, 0)>>

\* C4: every written touchpad_x (touchpad_y) event is followed by a write of
\* the multi-touch position X (Y) axis with the same final value as the
\* primary write, and no multi-touch position write comes from any other
\* event.
C4_MirrorSameValue ==
    ConsumedOpen =>
        /\ \A i \in 1..Len(events) :
               LET ev == events[i]
                   ws == WritesFrom(written, i)
               IN  IsMappedAxis(ev) /\ LastOfKey(events, i) =>
                       /\ ev.code = "touchpad_x" =>
                              /\ Len(ws) = 2
                              /\ ws[1].code = axis_map[ev.code].id
                              /\ ws[2] = W("EV_ABS", "ABS_MT_POSITION_X", ws[1].value, i)
                       /\ ev.code = "touchpad_y" =>
                              /\ Len(ws) = 2
                              /\ ws[1].code = axis_map[ev.code].id
                              /\ ws[2] = W("EV_ABS", "ABS_MT_POSITION_Y", ws[1].value, i)
                       /\ ev.code \notin {"touchpad_x", "touchpad_y"} => Len(ws) = 1
        /\ \A k \in 1..Len(written) :
               LET w == written[k]
               IN  /\ w.code = "ABS_MT_POSITION_X" =>
                       w.src > 0 /\ Key(events[w.src]) = <<"axis", "touchpad_x">>
                   /\ w.code = "ABS_MT_POSITION_Y" =>
                       w.src > 0 /\ Key(events[w.src]) = <<"axis", "touchpad_y">>

C4_Witness ==
    /\ ConsumedOpen
    /\ events = <<Ev("axis", "touchpad_y", <<2, 1>>), Ev("axis", "touchpad_x", <<11, 2>>)>>
    /\ written = <<W("EV_ABS", "ABS_X", 10, 2), W("EV_ABS", "ABS_MT_POSITION_X", 10, 2),
                   W("EV_ABS", "ABS_Y", 5, 1), W("EV_ABS", "ABS_MT_POSITION_Y", 5, 1),
                   W("EV_SYN", "SYN_REPORT", 0, 0)>>

\* A touch-down (press) was written by the call: its tracking-id write.
IsTouchDown(w) == w.code = "ABS_MT_TRACKING_ID" /\ w.value # -1
TouchDowns(ws) == {k \in 1..Len(ws) : IsTouchDown(ws[k])}
TouchWrites(ws) == {k \in 1..Len(ws) : ws[k].code = "ABS_MT_TRACKING_ID"}

\* C5 as stated, step by step: the ids of successive touch-downs are
\* 1,2,...,500,1,... exactly when open sets the id to 1, a touch-down writes
\* the current id and advances it by one (500 wrapping to 1), and no other
\* consume call changes it (the id advances only on touch-down).
C5_Original ==
    [][/\ op' = "open" /\ ~raised' => touch_id' = 1
       /\ ConsumeStep =>
            IF TouchDowns(written') # {}
            THEN /\ \A k \in TouchDowns(written') : written'[k].value = touch_id
                 /\ touch_id' = IF touch_id = 500 THEN 1 ELSE touch_id + 1
            ELSE touch_id' = touch_id]_vars

\* C5 (amended): after open the tracking id is 1; every written
\* touchpad_touch event, release as well as press, advances it by one (at
\* most once per consume call, duplicates being dropped), wrapping only from
\* 500 to 1; a touch-down writes the id as it was before that advance.  The
\* ids of successive touch-downs therefore grow by one plus the number of
\* releases written in between (1,3,5,... when presses and releases
\* alternate), not by one.
C5_AdvanceOnEveryTouch ==
    [][/\ op' = "open" /\ ~raised' => touch_id' = 1
       /\ ConsumeStep =>
            /\ Cardinality(TouchWrites(written')) <= 1
            /\ \A k \in TouchDowns(written') : written'[k].value = touch_id
            /\ IF TouchWrites(written') # {}
               THEN touch_id' = IF touch_id = 500 THEN 1 ELSE touch_id + 1
               ELSE touch_id' = touch_id
            /\ touch_id' \in 1..500]_vars

C5_Witness ==
    /\ ConsumedOpen
    /\ touch_id = 1
    /\ \E k \in 1..Len(written) : IsTouchDown(written[k]) /\ written[k].value = 500

\* limbs * m + add on a limb sequence (most significant first), as the
\* record of the product's limbs and the carry out of the top limb.
RECURSIVE MulAddLimbs(_, _, _)
MulAddLimbs(limbs, m, add) ==
    IF limbs = <<>> THEN [limbs |-> <<>>, carry |-> add]
    ELSE LET cur  == limbs[Len(limbs)] * m + add
             rest == MulAddLimbs(SubSeq(limbs, 1, Len(limbs) - 1), m, cur \div Limb)
         IN  [limbs |-> Append(rest.limbs, cur % Limb), carry |-> rest.carry]

\* v = <<hi, lo>> is (ns // 1000) mod 2**32: some quotient q = k * 2**32 + v
\* and remainder r < 1000 give q * 1000 + r = ns.
IsMicrosMod32(v, ns) ==
    /\ v[1] \in 0..(Limb - 1)
    /\ v[2] \in 0..(Limb - 1)
    /\ \E k \in 0..1 : \E r \in 0..999 :
           MulAddLimbs(<<0, k, v[1], v[2]>>, 1000, r) = [limbs |-> ns, carry |-> 0]

HasSyn(ws) == \E k \in 1..Len(ws) : ws[k].etype = "EV_SYN"
EventWritten(ws) == \E k \in 1..Len(ws) : ws[k].src > 0
SensorTsWritten(ws) ==
    \E k \in 1..Len(ws) : ws[k].code = "MSC_TIMESTAMP" /\ ws[k].src > 0

\* C6: a consume call emits a synchronization event if and only if an event
\* was written in the call and (output_imu_timestamps is disabled or a
\* sensor timestamp was written in the call), for every output_timestamps
\* and every sensor timestamp value.
C6_SyncIff ==
    ConsumedOpen =>
        (HasSyn(written) <=>
            /\ EventWritten(written)
            /\ (output_imu_timestamps = "False" \/ SensorTsWritten(written)))

\* C7: an unmapped accel_ts/gyro_ts/imu_ts axis event (the last of its key
\* in the batch) is written as one timestamp event of value
\* (raw // 1000) mod 2**32 when output_imu_timestamps is true or names that
\* code, and causes no write otherwise.  Scenario B: with
\* output_imu_timestamps = true, gyro_ts 1 500 000 writes 1500 and the call
\* ends with a synchronization event.
C7_SensorTimestamp ==
    ConsumedOpen =>
        /\ \A i \in 1..Len(events) :
               LET ev == events[i]
                   ws == WritesFrom(written, i)
               IN  ev.type = "axis" /\ ev.code \notin DOMAIN axis_map
                       /\ ev.code \in {"accel_ts", "gyro_ts", "imu_ts"}
                       /\ LastOfKey(events, i) =>
                       IF output_imu_timestamps = "True" \/ output_imu_timestamps = ev.code
                       THEN /\ Len(ws) = 1
                            /\ ws[1].etype = "EV_MSC"
                            /\ ws[1].code = "MSC_TIMESTAMP"
                            /\ IsMicrosMod32(ws[1].value, ev.value)
                            /\ (ev.value = Ns1500000 => ws[1].value = <<0, 1500>>)
                            /\ (ev.value = NsWrap5 => ws[1].value = <<0, 5>>)
                       ELSE ws = <<>>
        /\ output_imu_timestamps = "True" /\ ~output_timestamps
               /\ events = <<Ev("axis", "gyro_ts", Ns1500000)>> =>
               written = <<W("EV_MSC", "MSC_TIMESTAMP", <<0, 1500>>, 1),
                           W("EV_SYN", "SYN_REPORT", 0, 0)>>

C7_Witness ==
    /\ ConsumedOpen
    /\ output_imu_timestamps = "True"
    /\ events = <<Ev("axis", "gyro_ts", Ns1500000)>>
    /\ written = <<W("EV_MSC", "MSC_TIMESTAMP", <<0, 1500>>, 1),
                   W("EV_SYN", "SYN_REPORT", 0, 0)>>

\* ------------------------------------------------- force-feedback claims
IsActivate(ev) == ev.type = "EV_FF" /\ ev.value # 0
IsDeactivate(ev) == ev.type = "EV_FF" /\ ev.value = 0
IsRumbleUpload(ev) ==
    ev.type = "EV_UINPUT" /\ ev.code = "UI_FF_UPLOAD" /\ ev.effect.type = "FF_RUMBLE"

\* The output events caused by drained position i, in order.
OutFrom(o, i) == SelectSeq(o, LAMBDA e : e.src = i)

\* Positions before i of the drained events that upload a rumble effect.
RumbleUploadsBefore(evs, i) == {j \in 1..(i - 1) : IsRumbleUpload(evs[j])}

\* The raw effect of the most recent rumble upload before position i:
\* the latest one among the drained events, else the one of earlier calls.
LatestUploadAt(evs, i, earlier) ==
    LET here == RumbleUploadsBefore(evs, i)
    IN  IF here = {} THEN earlier
        ELSE <<evs[CHOOSE j \in here : \A k \in here : k <= j].effect>>

\* The fraction r is raw / 0xFFFF and lies in [0, 1] (r[1] / r[2] with
\* r[2] a divisor of 0xFFFF, compared without leaving 32 bits).
IsNormalized(r, raw) ==
    /\ r[2] > 0
    /\ 65535 % r[2] = 0
    /\ 0 <= r[1] /\ r[1] <= r[2]
    /\ r[1] * (65535 \div r[2]) = raw

\* produce ran its loop: the last call was a produce that read the device.
Produced == op = "produce" /\ ~raised
ProduceStep == op' = "produce"

\* C8: every force-feedback deactivation drained by produce yields exactly
\* one rumble event with both magnitudes zero in the returned sequence,
\* with or without an earlier upload.
C8_DeactivateStops ==
    Produced =>
        \A i \in 1..Len(drained) :
            IsDeactivate(drained[i]) =>
                /\ Len(OutFrom(out, i)) = 1
                /\ OutFrom(out, i)[1].type = "rumble"
                /\ OutFrom(out, i)[1].code = "main"
                /\ OutFrom(out, i)[1].weak_magnitude[1] = 0
                /\ OutFrom(out, i)[1].strong_magnitude[1] = 0

C8_Witness ==
    /\ Produced
    /\ rumble = <<>>
    /\ drained = <<DevEv("EV_FF", "0", 0, NoEffect), DevEv("EV_FF", "0", 0, NoEffect)>>
    /\ Len(out) = 2

\* C9: a force-feedback activation drained by produce when no rumble effect
\* has been uploaded on this instance adds no event to the output, and
\* produce does not raise.
C9_ActivateWithoutUpload ==
    [][ProduceStep =>
        \A i \in 1..Len(drained') :
            IsActivate(drained'[i]) /\ lastUpload = <<>>
                /\ RumbleUploadsBefore(drained', i) = {} =>
                /\ OutFrom(out', i) = <<>>
                /\ ~raised']_vars

C9_Witness ==
    /\ Produced
    /\ lastUpload = <<>>
    /\ drained = <<DevEv("EV_FF", "0", 1, NoEffect), DevEv("EV_FF", "0", 0, NoEffect)>>
    /\ Len(out) = 1
    /\ out[1].src = 2

\* C10: every force-feedback activation drained by produce while a pending
\* rumble effect exists yields exactly one rumble event whose magnitudes are
\* the raw 16-bit magnitudes of the most recent rumble-type upload divided
\* by 0xFFFF (each in [0,1]), never those of an older upload; the pending
\* effect stays in place, so a repeated activation yields it again.
\* Scenario C: upload {0xFFFF, 0x8000} then activate gives weak 1 and strong
\* 32768/65535.
C10_ActivateEmitsLatestUpload ==
    [][ProduceStep =>
        /\ \A i \in 1..Len(drained') :
               LET up == LatestUploadAt(drained', i, lastUpload)
                   o  == OutFrom(out', i)
               IN  IsActivate(drained'[i])
                       /\ (rumble # <<>> \/ RumbleUploadsBefore(drained', i) # {}) =>
                       /\ up # <<>>
                       /\ Len(o) = 1
                       /\ o[1].type = "rumble"
                       /\ o[1].code = "main"
                       /\ IsNormalized(o[1].weak_magnitude, up[1].weak_magnitude)
                       /\ IsNormalized(o[1].strong_magnitude, up[1].strong_magnitude)
                       /\ (up[1] = RumbleEffect(65535, 32768) =>
                               /\ o[1].weak_magnitude = <<1, 1>>
                               /\ o[1].strong_magnitude = <<32768, 65535>>)
        /\ RumbleUploadsBefore(drained', Len(drained') + 1) = {} => rumble' = rumble]_vars

C10_Witness ==
    /\ Produced
    /\ drained = <<DevEv("EV_FF", "0", 1, NoEffect), DevEv("EV_FF", "0", 1, NoEffect)>>
    /\ lastUpload = <<RumbleEffect(32768, 0)>>
    /\ Len(out) = 2
    /\ out[1].weak_magnitude = <<32768, 65535>>
    /\ out[2].weak_magnitude = <<32768, 65535>>

\* ------------------------------------------------------ lifecycle claims
\* What a call leaves alone when it is a no-op on the instance.
InstanceUnchanged ==
    UNCHANGED <<dev, fd, touchpad_aspect, touch_id, rumble, config, inq>>

\* C11: the pending rumble effect is cleared when the device handle is
\* destroyed: on an instance that was closed and opened again, a
\* force-feedback activation drained by produce when no rumble upload was
\* processed since that close adds no rumble event to the output.
C11_ClearedWithHandle ==
    [][ProduceStep =>
        \A i \in 1..Len(drained') :
            IsActivate(drained'[i]) /\ ~uploadedSinceClose
                /\ RumbleUploadsBefore(drained', i) = {} =>
                OutFrom(out', i) = <<>>]_vars

\* C12: produce returns an empty sequence, reads nothing from the device
\* (and acknowledges nothing), raises nothing and changes no state whenever
\* ignore_cmds is set, no device is open, or the device descriptor is not
\* in ready_fds; so with ignore_cmds set every produce call returns empty
\* for every ready_fds.
C12_ProduceGuard ==
    [][ProduceStep /\ (ignore_cmds \/ dev = DevNone \/ fd \notin ready') =>
        /\ out' = <<>>
        /\ drained' = <<>>
        /\ acks' = <<>>
        /\ ~raised'
        /\ InstanceUnchanged]_vars

\* C13: produce called while no device is open (never opened, after a
\* failed open, after close) returns empty, raises no error and is a no-op.
C13_ProduceWithoutDevice ==
    [][ProduceStep /\ dev = DevNone =>
        /\ ~raised'
        /\ out' = <<>>
        /\ drained' = <<>>
        /\ InstanceUnchanged]_vars

\* C14: consume called while no device is open (never opened, or after
\* close) performs no device write, emits no sync, raises no error and
\* leaves the instance unchanged, for every batch, including ones with
\* configuration or touchpad_touch events.
C14_ConsumeWithoutDevice ==
    [][op' = "consume" /\ dev = DevNone =>
        /\ written' = <<>>
        /\ ~raised'
        /\ InstanceUnchanged]_vars

C14_Witness ==
    /\ op = "consume"
    /\ dev = DevNone
    /\ fd = FdNone
    /\ events = <<Ev("configuration", "touchpad_aspect_ratio", <<3, 2>>),
                  Ev("button", "touchpad_touch", TRUE)>>
    /\ written = <<>>
    /\ touch_id = 1
    /\ touchpad_aspect = <<1, 1>>

C16_OpenResult ==
    [][op' = "open" /\ ~raised' =>
        /\ lifecalls'[Len(lifecalls')].ok
        /\ dev' = lifecalls'[Len(lifecalls')].call
        /\ fd' = DevFd
        /\ ret' = (IF ignore_cmds THEN <<>> ELSE <<DevFd>>)]_vars

C16_Witness ==
    /\ op = "open"
    /\ ~raised
    /\ ignore_cmds
    /\ dev = "UInputMonkey"
    /\ ret = <<>>

\* C17: for every batch consisting only of axis/button events whose codes
\* are unmapped and are not enabled sensor-timestamp codes, consume on an
\* open device performs no device write at all (no event write, no
\* wall-clock timestamp, no sync) and does not fail, whatever the timestamp
\* settings.
IsEnabledTsCode(code) ==
    \/ output_imu_timestamps = "True" /\ code \in {"accel_ts", "gyro_ts", "imu_ts"}
    \/ output_imu_timestamps = code
IsIgnoredCode(ev) ==
    \/ ev.type = "axis" /\ ev.code \notin DOMAIN axis_map /\ ~IsEnabledTsCode(ev.code)
    \/ ev.type = "button" /\ ev.code \notin DOMAIN btn_map

C17_UnmappedIgnored ==
    ConsumedOpen /\ (\A i \in 1..Len(events) : IsIgnoredCode(events[i])) =>
        /\ written = <<>>
        /\ ~raised

C17_Witness ==
    /\ ConsumedOpen
    /\ output_timestamps
    /\ output_imu_timestamps = "gyro_ts"
    /\ events = <<Ev("axis", "accel_ts", Ns1500000), Ev("button", "share", TRUE)>>
    /\ written = <<>>

\* C18: open tries the primary constructor (with the unique id) first; if
\* it fails the default constructor is tried with the same arguments minus
\* the unique id, and only then; open raises only if both fail, leaving the
\* instance as it was, and otherwise the instance holds exactly the device
\* made by the constructor that succeeded.
C18_Fallback ==
    [][op' = "open" =>
        LET calls == lifecalls'
        IN  /\ Len(calls) \in {1, 2}
            /\ calls[1].call = "UInputMonkey"
            /\ "uniq" \in calls[1].args
            /\ (Len(calls) = 2 <=> ~calls[1].ok)
            /\ Len(calls) = 2 =>
                   /\ calls[2].call = "UInput"
                   /\ calls[2].args = calls[1].args \ {"uniq"}
            /\ (raised' <=> \A k \in 1..Len(calls) : ~calls[k].ok)
            /\ raised' => dev' = dev /\ fd' = fd
            /\ ~raised' =>
                   \E k \in 1..Len(calls) : calls[k].ok /\ dev' = calls[k].call]_vars

C18_Witness ==
    /\ op = "open"
    /\ ~raised
    /\ dev = "UInput"
    /\ lifecalls = <<Ctor("UInputMonkey", CtorArgs, FALSE),
                     Ctor("UInput", CtorArgs \ {"uniq"}, TRUE)>>

\* Devices a call created / released, from its constructor and close calls.
CreatedBy(calls) ==
    Cardinality({k \in 1..Len(calls) : calls[k].call # "close" /\ calls[k].ok})
ReleasedBy(calls) ==
    Cardinality({k \in 1..Len(calls) : calls[k].call = "close"})
Held == IF dev = DevNone THEN 0 ELSE 1

\* C19: at most one device handle exists per instance: the devices the
\* instance created and has not released are exactly the one it holds (none
\* when it holds none).  Stated step by step from construction, when none
\* exists: every call changes the number of devices held by the number it
\* creates minus the number it releases.
C19_AtMostOneHandle ==
    [][Held' = Held + CreatedBy(lifecalls') - ReleasedBy(lifecalls')]_vars

IsUpload(ev) == ev.type = "EV_UINPUT" /\ ev.code = "UI_FF_UPLOAD"
IsErase(ev) == ev.type = "EV_UINPUT" /\ ev.code = "UI_FF_ERASE"

\* The protocol calls caused by drained position i, in order.
CallsFrom(calls, i) == SelectSeq(calls, LAMBDA c : c.src = i)

\* The pending effect p is the normalized form of the raw effect e.
IsPendingOf(p, e) ==
    /\ Len(p) = 1
    /\ p[1].type = "rumble"
    /\ IsNormalized(p[1].weak_magnitude, e.weak_magnitude)
    /\ IsNormalized(p[1].strong_magnitude, e.strong_magnitude)

\* C21: every force-feedback upload request drained by produce is
\* acknowledged (begin_upload followed by end_upload, the request passed
\* back as received) whatever its effect type, and adds no event to the
\* output; an upload whose effect is not rumble-style leaves the pending
\* rumble effect as it was: after the call the pending effect is that of the
\* latest rumble-style upload drained, or the one before the call if none
\* was drained.
C21_UploadAcknowledged ==
    [][ProduceStep =>
        LET n  == Len(drained')
            up == RumbleUploadsBefore(drained', n + 1)
        IN  /\ \A i \in 1..n :
                   IsUpload(drained'[i]) =>
                       /\ Len(CallsFrom(acks', i)) = 2
                       /\ CallsFrom(acks', i)[1].call = "begin_upload"
                       /\ CallsFrom(acks', i)[2].call = "end_upload"
                       /\ CallsFrom(acks', i)[2].retval = CallsFrom(acks', i)[1].retval
                       /\ OutFrom(out', i) = <<>>
            /\ up = {} => rumble' = rumble
            /\ up # {} =>
                   IsPendingOf(rumble', drained'[CHOOSE j \in up : \A k \in up : k <= j].effect)]_vars

C21_Witness ==
    /\ Produced
    /\ drained = <<DevEv("EV_UINPUT", "UI_FF_UPLOAD", 0, RumbleEffect(32768, 0)),
                   DevEv("EV_UINPUT", "UI_FF_UPLOAD", 0,
                         [type |-> "FF_PERIODIC", weak_magnitude |-> 0,
                          strong_magnitude |-> 0])>>
    /\ rumble = <<RumbleEv(<<32768, 65535>>, <<0, 1>>, 0)>>
    /\ acks = <<FFCall("begin_upload", 0, 1), FFCall("end_upload", 0, 1),
                FFCall("begin_upload", 0, 2), FFCall("end_upload", 0, 2)>>
    /\ out = <<>>

\* C25: every force-feedback erase request drained by produce is
\* acknowledged with result 0 (begin_erase, then end_erase with retval 0)
\* and changes nothing else: it adds no event to the output and leaves the
\* pending rumble effect alone, so an activation after an erase still emits
\* the effect of the latest rumble upload.
C25_EraseAcknowledged ==
    [][ProduceStep =>
        LET n == Len(drained')
        IN  /\ \A i \in 1..n :
                   IsErase(drained'[i]) =>
                       /\ CallsFrom(acks', i) =
                              <<FFCall("begin_erase", 0, i), FFCall("end_erase", 0, i)>>
                       /\ OutFrom(out', i) = <<>>
            /\ RumbleUploadsBefore(drained', n + 1) = {} => rumble' = rumble
            /\ \A i \in 1..n : \A j \in (i + 1)..n :
                   LET latest == LatestUploadAt(drained', j, lastUpload)
                   IN  IsErase(drained'[i]) /\ IsActivate(drained'[j])
                           /\ (rumble # <<>> \/ RumbleUploadsBefore(drained', j) # {}) =>
                           /\ latest # <<>>
                           /\ Len(OutFrom(out', j)) = 1
                           /\ IsPendingOf(<<OutFrom(out', j)[1]>>, latest[1])]_vars

\* An erase then an activation in one call, the effect uploaded earlier.
C25_Witness ==
    /\ Produced
    /\ drained = <<DevEv("EV_UINPUT", "UI_FF_ERASE", 0, NoEffect),
                   DevEv("EV_FF", "0", 1, NoEffect)>>
    /\ lastUpload = <<RumbleEffect(65535, 32768)>>
    /\ acks = <<FFCall("begin_erase", 0, 1), FFCall("end_erase", 0, 1)>>
    /\ Len(out) = 1
    /\ out[1].weak_magnitude = <<1, 1>>
    /\ out[1].strong_magnitude = <<32768, 65535>>

\* ------------------------------------------------- touch and timestamps
IsTouchButton(ev) == ev.type = "button" /\ ev.code = "touchpad_touch"

\* C22: for a touchpad_touch button event (the last of its key in the
\* batch) with touchpad_touch in the button map, consume writes a
\* tracking-id event (the tracking id before the call if the value is true,
\* -1 if false), a finger tool-presence key event with the boolean as 1/0,
\* and the mapped button event with the same 1/0, in this order; with
\* touchpad_touch not in the button map it writes none of them.
C22_TouchWrites ==
    [][ConsumeStep =>
        \A i \in 1..Len(events') :
            LET ev == events'[i]
                b  == IF ev.value THEN 1 ELSE 0
            IN  IsTouchButton(ev) /\ LastOfKey(events', i) =>
                    IF "touchpad_touch" \in DOMAIN btn_map
                    THEN WritesFrom(written', i) =
                             <<W("EV_ABS", "ABS_MT_TRACKING_ID",
                                 IF ev.value THEN touch_id ELSE -1, i),
                               W("EV_KEY", "BTN_TOOL_FINGER", b, i),
                               W("EV_KEY", btn_map["touchpad_touch"], b, i)>>
                    ELSE WritesFrom(written', i) = <<>>]_vars

\* A release after two touch events: tracking id -1, finger 0, button 0.
C22_Witness ==
    /\ ConsumedOpen
    /\ touch_id = 4
    /\ events = <<Ev("button", "touchpad_touch", FALSE)>>
    /\ written = <<W("EV_ABS", "ABS_MT_TRACKING_ID", -1, 1),
                   W("EV_KEY", "BTN_TOOL_FINGER", 0, 1),
                   W("EV_KEY", "BTN_TOUCH", 0, 1),
                   W("EV_SYN", "SYN_REPORT", 0, 0)>>

\* C23: in every reachable state with an open device the tracking id is an
\* integer in [1, 500]; no sequence of consume calls makes it 0, negative or
\* greater than 500.
C23_TrackingIdRange ==
    dev # DevNone => touch_id \in 1..500

C23_Witness ==
    /\ ConsumedOpen
    /\ touch_id = 500
    /\ events = <<Ev("button", "touchpad_touch", TRUE)>>

\* The wall-clock timestamp of a call: the one written after the loop.
WallClockStamps(ws) ==
    {k \in 1..Len(ws) : ws[k].code = "MSC_TIMESTAMP" /\ ws[k].src = 0}
Syns(ws) == {k \in 1..Len(ws) : ws[k].etype = "EV_SYN"}

\* C24: a consume call writes exactly one wall-clock timestamp event if at
\* least one event was written and output_timestamps is enabled, and none
\* otherwise; it comes after every event write of the batch and before the
\* synchronization event, and the synchronization event, when emitted, is
\* the last write of the call.
C24_WallClockStamp ==
    ConsumedOpen =>
        /\ Cardinality(WallClockStamps(written)) =
               (IF EventWritten(written) /\ output_timestamps THEN 1 ELSE 0)
        /\ \A k \in WallClockStamps(written) :
               /\ \A j \in 1..Len(written) : written[j].src > 0 => j < k
               /\ \A j \in Syns(written) : k < j
        /\ \A j \in Syns(written) : j = Len(written)

C24_Witness ==
    /\ ConsumedOpen
    /\ output_timestamps
    /\ output_imu_timestamps = "True"
    /\ events = <<Ev("axis", "gyro_ts", Ns1500000), Ev("button", "a", TRUE)>>
    /\ written = <<W("EV_KEY", "BTN_A", 1, 2),
                   W("EV_MSC", "MSC_TIMESTAMP", <<0, 1500>>, 1),
                   W("EV_MSC", "MSC_TIMESTAMP", <<0, 5>>, 0),
                   W("EV_SYN", "SYN_REPORT", 0, 0)>>

\* C26: close never fails loudly: in every state, also when releasing the
\* underlying device raises, close returns success and afterwards the
\* instance holds no device handle and no descriptor.
C26_CloseNeverFails ==
    [][op' = "close" =>
        /\ ~raised'
        /\ ret' = <<TRUE>>
        /\ dev' = DevNone
        /\ fd' = FdNone]_vars

\* The aspect-ratio configuration events of a batch.
AspectConfigs(evs) == {i \in 1..Len(evs) : IsAspectConfig(evs[i])}

\* C27: after a consume call whose batch contains touchpad_aspect_ratio
\* configuration events, the aspect ratio is the value of the one that is
\* last in the batch, and a batch of configuration events alone causes no
\* device write and no sync.
C27_LatestAspectWins ==
    ConsumedOpen =>
        /\ AspectConfigs(events) # {} =>
               touchpad_aspect =
                   events[CHOOSE i \in AspectConfigs(events) :
                              \A j \in AspectConfigs(events) : j <= i].value
        /\ AspectConfigs(events) = 1..Len(events) => written = <<>>

\* ------------------------------------------- RogAllyControllersPlugin
\* A call of the plugin has returned to its caller without raising.
AllyReturned(name) == ally.op = name /\ ally.pc = "idle" /\ ~ally.raised

\* C28: over any sequence of open, update and close calls at most one
\* worker thread started by the plugin is alive at any time, and close
\* returns only after the worker it signalled has ended, with t and
\* should_exit cleared.
C28_OneWorker ==
    /\ Cardinality(ally.alive) <= 1
    /\ AllyReturned("close") =>
           /\ ally.t = 0
           /\ ally.should_exit = PyNone
           /\ ally.joined \notin ally.alive
           /\ ally.alive = {}

\* A close that signalled worker 1 and joined it has returned.
C28_Witness ==
    /\ AllyReturned("close")
    /\ ally.joined = 1
    /\ ally.started
    /\ ally.t = 0

\* C29: whenever update is called with a configuration that differs from
\* the previously seen one while no worker thread is running, also after a
\* close followed by an open, the call starts a worker thread and sets the
\* updated event.
C29_UpdateStartsWorker ==
    [][(/\ ally.pc = "idle"
        /\ ally.prev # PrevUnset
        /\ ally.alive = {}
        /\ ally'.op = "update"
        /\ ally'.pc = "idle"
        /\ ~ally'.raised
        /\ ally'.arg # ally.prev)
       => (ally'.spawned # 0 /\ ally'.updated)]_vars

\* ------------------------------------------------------------ BootcPlugin
\* The most recent event is an update call that returned normally.
BootcUpdated == bootc.op = "update" /\ ~bootc.raised

\* The conf value that stands for a stage.
ExpectedMode(state) ==
    IF state = "rebase_dialog" THEN "rebase"
    ELSE IF state = "loading_rebase" THEN "loading"
    ELSE state

RunningProcs == bootc.orphans + (IF bootc.proc = "running" THEN 1 ELSE 0)

\* C31: at most one subprocess launched by the plugin is running at any
\* time: every running subprocess is the one self.proc refers to, also after
\* the UI reset the stage's conf value during a loading state.
C31_OneSubprocess ==
    /\ RunningProcs <= 1
    /\ bootc.orphans = 0

\* The stages _init can select.
InitStages == ReadyStages \union {"incompatible"}

\* A step that is an update call made in a loading stage with the stage's
\* conf value set.
LoadingUpdateStep ==
    /\ bootc.state \in {"loading", "loading_cancellable"}
    /\ bootc.mode # PyNone
    /\ bootc'.op = "update"

\* C32: in state loading or loading_cancellable with the stage's conf value
\* set, update leaves the state unchanged while the subprocess is running
\* and no cancel was requested; once the subprocess has exited or failed to
\* start, the next update re-initialises into one of incompatible, ready,
\* ready_check, ready_updated, ready_reverted, ready_rebased with proc
\* cleared; and a cancel action interrupts the process only in
\* loading_cancellable.
C32_LoadingWaits ==
    [][LoadingUpdateStep =>
        /\ (bootc.proc = "running" /\ "cancel" \notin bootc'.pressed) =>
               /\ bootc'.state = bootc.state
               /\ bootc'.proc = "running"
        /\ bootc.proc \in {PyNone, "exited"} =>
               /\ bootc'.state \in InitStages
               /\ bootc'.proc = PyNone
        /\ bootc'.interrupted =>
               /\ bootc.state = "loading_cancellable"
               /\ "cancel" \in bootc'.pressed]_vars

\* A step in which _init ran and the status command had failed, so that
\* get_bootc_status returned the empty mapping.
InitReadEmptyStatus ==
    /\ bootc'.op = "update"
    /\ bootc'.status = StatusEmpty
    /\ bootc' # bootc

\* C33: the assertion on self.status in get_version holds whenever it is
\* evaluated: when the status command fails and get_bootc_status returns the
\* empty mapping, _init completes without raising and the plugin enters the
\* incompatible state.
C33_AssertHolds ==
    [][InitReadEmptyStatus =>
        /\ ~bootc'.raised
        /\ bootc'.state = "incompatible"]_vars

\* C34: the rebase dialog reads self.t_data only after the loader thread
\* that fills it has terminated: the state moves from loading_rebase to
\* rebase_dialog only when that thread is no longer alive, and while the
\* dialog is shown no alive loader thread writes into the mapping
\* self.t_data refers to, also when a second rebase was started after a
\* reset of the conf value.
C34_DialogReadsSettled ==
    [][bootc'.state = "rebase_dialog" =>
        /\ bootc'.writers = 0
        /\ bootc'.t # "alive"
        /\ bootc.state = "loading_rebase" => bootc.t = "ended"]_vars

\* The dialog opened by update while the loader of an earlier rebase, started
\* before a reset of the conf value, is still alive.
C34_Witness ==
    /\ BootcUpdated
    /\ bootc.state = "rebase_dialog"
    /\ bootc.stale > 0
    /\ bootc.t_data = "filled"

\* A step that is a call of validate_config.
ValidateStep == validation'.op = "validate" /\ validation'.d = validation.d

\* The documented format of a progress value: a mapping with an optional
\* numeric value, a numeric max that is required when value is present, and
\* optional string unit and text.
ProgressFormat(v) ==
    /\ v.kind = "map"
    /\ v.value \in {"absent", "num"}
    /\ v.max \in {"absent", "num"}
    /\ v.value = "num" => v.max = "num"
    /\ v.unit \in {"absent", "str"}
    /\ v.text \in {"absent", "str"}

\* C35: validate_config with use_defaults keeps the configured value of a
\* custom setting tagged progress when the value has the documented progress
\* format, also when the plugins' validator rejects it and also for a
\* pulsing progress mapping without value and max, and does not raise.
C35_ProgressKept ==
    [][(/\ ValidateStep
        /\ validation'.use_defaults
        /\ validation.d.type = "custom"
        /\ "progress" \in validation.d.tags
        /\ ProgressFormat(validation.v))
       => /\ ~validation'.raised
          /\ validation'.v = validation.v]_vars

\* C36: for an int or float setting whose min or max is None, validate_config
\* completes without error and leaves a value of the setting's type
\* unchanged; when both bounds are numbers, the stored value lies in
\* [min, max] after validate_config.
C36_BoundsRespected ==
    [][(/\ ValidateStep
        /\ validation.d.type \in {"int", "float"}
        /\ validation.v.kind \in {"int", "float"})
       => /\ (/\ "none" \in {validation.d.min.kind, validation.d.max.kind}
              /\ validation.v.kind = validation.d.type)
             => /\ ~validation'.raised
                /\ validation'.v = validation.v
          /\ "none" \notin {validation.d.min.kind, validation.d.max.kind}
             => /\ ~validation'.raised
                /\ validation.d.min.n <= validation'.v.n
                /\ validation'.v.n <= validation.d.max.n]_vars

====
